---- MODULE Spec2Model ----
(***************************************************************************)
(* Keyword-driven extraction and normalisation engine of the porcelain     *)
(* catalogue pipeline: the taxonomy store (src/keyword_dictionary.py,      *)
(* class KeywordDictionary) and the attribute extractors                   *)
(* (src/data_mapper.py, class DataMapper).                                 *)
(*                                                                         *)
(* Python strings are TLA+ strings; a character is a string of length 1.   *)
(* A letter outside ASCII is written "#" in the tables below (TLA+ string  *)
(* literals are ASCII); the inputs of the model never contain "#", so a    *)
(* surface form with such a letter matches no input, exactly as it matches *)
(* no ASCII input in the program.                                          *)
(***************************************************************************)
EXTENDS Integers, Sequences, FiniteSets, TLC

VARIABLES
    kd,        \* the KeywordDictionary instance: one ordered dict per attribute
    hashseed,  \* string hash seed of the interpreter process (PYTHONHASHSEED)
    pc,        \* "call" before the operation runs, "done" after it returned
    op,        \* the operation under evaluation
    year,      \* argument of get_dynasty_from_year
    place,     \* argument of normalize_place
    item,      \* the raw record handed to the extractors
    text,      \* the assembled free text handed to the extractors
    ret,       \* the value returned by the operation
    exc,       \* the exception the operation raised, None when it returned
    mutations, \* the mutation calls applied to the taxonomy so far, in order
    run,       \* 1 in the first interpreter process, 2 after a restart
    prev,      \* the value the same call returned in the previous process
    frame      \* the local variables of a call that is under way

vars == <<kd, hashseed, pc, op, year, place, item, text, ret, exc, mutations, run, prev, frame>>

(***************************************************************************)
(* Python values                                                           *)
(***************************************************************************)
\* Python's None (a string no input can be equal to).
None == "<None>"

\* dict entries are kept in insertion order: a dict is a sequence of
\* [key, kws] records with pairwise different keys.
Range(s) == {s[i] : i \in 1..Len(s)}

Min(S) == CHOOSE m \in S : \A n \in S : m <= n

Max(S) == CHOOSE m \in S : \A n \in S : m >= n

(***************************************************************************)
(* str methods                                                             *)
(***************************************************************************)
Char(s, i) == SubSeq(s, i, i)

UpperCase == "ABCDEFGHIJKLMNOPQRSTUVWXYZ"

LowerCase == "abcdefghijklmnopqrstuvwxyz"

Digits == {"0", "1", "2", "3", "4", "5", "6", "7", "8", "9"}

\* \s of the re module, and the characters str.strip() removes.
Whitespace == {" "}

\* \w of the re module ("#" stands for a letter outside Latin-1).
WordChars ==
    {Char(LowerCase, i) : i \in 1..26} \cup {Char(UpperCase, i) : i \in 1..26}
        \cup Digits \cup {"_", "#", "è", "é", "º"}

\* the lower-case letter of every upper-case ASCII letter
ToLower == [c \in {Char(UpperCase, i) : i \in 1..26} |->
               Char(LowerCase, CHOOSE i \in 1..26 : Char(UpperCase, i) = c)]

lower_char(c) == IF c \in DOMAIN ToLower THEN ToLower[c] ELSE c

RECURSIVE lower_range(_, _, _)
\* the characters a..b of s, lower-cased (by halves)
lower_range(s, a, b) ==
    IF a > b THEN ""
    ELSE IF a = b THEN lower_char(Char(s, a))
    ELSE LET mid == (a + b) \div 2
         IN  lower_range(s, a, mid) \o lower_range(s, mid + 1, b)

\* str.lower()
lower(s) == lower_range(s, 1, Len(s))

\* str.strip()
strip(s) ==
    LET keep == {i \in 1..Len(s) : Char(s, i) \notin Whitespace}
    IN  IF keep = {} THEN "" ELSE SubSeq(s, Min(keep), Max(keep))

\* sub in s
Contains(sub, s) ==
    \E i \in 1..(Len(s) - Len(sub) + 1) : SubSeq(s, i, i + Len(sub) - 1) = sub

\* s.startswith(prefix)
startswith(s, prefix) ==
    Len(prefix) <= Len(s) /\ SubSeq(s, 1, Len(prefix)) = prefix

(***************************************************************************)
(* KeywordDictionary._init_keywords: the default tables                    *)
(***************************************************************************)
Default_color_keywords ==
    << [key |-> "blue and white", kws |-> <<
            "blue", "white", "blue and white", "underglaze blue", "cobalt blue", "qinghua",
            "blue white", "delft blue", "delfts blauw">>],
       [key |-> "celadon", kws |-> <<
            "celadon", "green glaze", "greenish", "longquan celadon", "yue celadon",
            "greenware", "sea green">>],
       [key |-> "famille rose", kws |-> <<
            "famille rose", "pink", "rose", "fencai", "yangcai", "enamel pink">>],
       [key |-> "famille verte", kws |-> <<
            "famille verte", "green family", "kangxi palette", "wucai">>],
       [key |-> "red", kws |-> <<
            "red", "copper red", "iron red", "sang de boeuf", "oxblood", "jihong",
            "crimson">>],
       [key |-> "yellow", kws |-> <<
            "yellow", "imperial yellow", "egg yolk", "lemon yellow", "mustard">>],
       [key |-> "black", kws |-> <<"black", "mirror black", "tenmoku", "jian ware">>],
       [key |-> "brown", kws |-> <<"brown", "cafe-au-lait", "chocolate", "tea dust", "coffee">>],
       [key |-> "purple", kws |-> <<"purple", "aubergine", "violet", "lavender", "plum">>],
       [key |-> "green", kws |-> <<"green", "apple green", "cucumber green", "emerald", "jade">>],
       [key |-> "gold", kws |-> <<"gold", "gilt", "gilded", "golden", "gilding">>],
       [key |-> "multicolor", kws |-> <<
            "polychrome", "multicolor", "wucai", "doucai", "contrasting colors",
            "five color">>] >>

Default_decoration_themes ==
    << [key |-> "floral", kws |-> <<
            "flower", "floral", "peony", "lotus", "chrysanthemum", "prunus", "bamboo",
            "pine", "plant", "leaf", "branch", "bloom", "blossom", "orchid", "camellia",
            "magnolia", "plum blossom", "rose", "lily", "iris", "narcissus", "tree",
            "foliage", "vine", "spray", "flowers", "petals", "stems", "buds", "willow",
            "tulip">>],
       [key |-> "figural", kws |-> <<
            "figure", "people", "scholar", "lady", "child", "immortal", "deity", "warrior",
            "official", "sage", "goddess", "emperor", "court", "attendant", "maiden",
            "monk", "buddha", "bodhisattva", "luohan", "guanyin", "figures", "person",
            "man", "woman", "boy", "dutch figure", "european figure">>],
       [key |-> "animal", kws |-> <<
            "dragon", "phoenix", "bird", "crane", "fish", "deer", "lion", "tiger", "horse",
            "butterfly", "qilin", "foo dog", "bat", "magpie", "peacock", "eagle", "carp",
            "goldfish", "mandarin duck", "rooster", "rabbit", "birds", "animals">>],
       [key |-> "landscape", kws |-> <<
            "landscape", "mountain", "river", "pavilion", "garden", "rock", "tree",
            "cloud", "moon", "scenery", "waterfall", "bridge", "pagoda", "temple",
            "island", "boat", "shore", "cliff", "wave", "mist", "mountains", "hills",
            "valley", "lake", "windmill", "canal", "dutch landscape">>],
       [key |-> "geometric", kws |-> <<
            "geometric", "pattern", "band", "border", "scroll", "lattice", "diaper",
            "key-fret", "meander", "lozenge", "checkerboard", "zigzag", "diamond",
            "hexagon", "octagon", "circle", "square", "triangle", "stripes", "dots",
            "lines">>],
       [key |-> "calligraphy", kws |-> <<
            "character", "inscription", "poem", "text", "writing", "calligraphy",
            "seal script", "kaishu", "poetry", "verse", "couplet", "mark", "characters",
            "script">>],
       [key |-> "symbolic", kws |-> <<
            "ruyi", "shou", "fu", "lu", "xi", "bagua", "taiji", "yin yang", "endless knot",
            "auspicious", "symbol", "eight treasures", "buddhist emblems",
            "daoist emblems", "coat of arms", "heraldic">>] >>

Default_shape_keywords ==
    << [key |-> "bowl", kws |-> <<
            "bowl", "deep bowl", "shallow bowl", "tea bowl", "rice bowl", "lotus bowl">>],
       [key |-> "vase", kws |-> <<
            "vase", "meiping", "baluster vase", "bottle vase", "gu", "hu", "zun",
            "tulip vase">>],
       [key |-> "jar", kws |-> <<
            "jar", "ginger jar", "storage jar", "covered jar", "lidded jar", "tobacco jar">>],
       [key |-> "plate", kws |-> <<"plate", "dish", "charger", "saucer", "platter">>],
       [key |-> "cup", kws |-> <<"cup", "tea cup", "wine cup", "stem cup", "beaker", "teacup">>],
       [key |-> "pot", kws |-> <<
            "pot", "teapot", "wine pot", "water pot", "ewer", "kettle", "coffee pot">>],
       [key |-> "bottle", kws |-> <<
            "bottle", "moon flask", "double gourd", "pilgrim flask", "snuff bottle">>],
       [key |-> "box", kws |-> <<"box", "covered box", "seal box", "cosmetic box", "container">>],
       [key |-> "censer", kws |-> <<"censer", "incense burner", "tripod censer", "brazier">>],
       [key |-> "ewer", kws |-> <<
            "ewer", "wine ewer", "water ewer", "spouted vessel", "pitcher">>],
       [key |-> "tile", kws |-> <<"tile", "wall tile", "floor tile", "decorative tile">>] >>

Default_function_keywords ==
    << [key |-> "tea", kws |-> <<
            "tea", "tea bowl", "teapot", "tea cup", "tea ceremony", "tea service">>],
       [key |-> "wine", kws |-> <<"wine", "wine cup", "wine pot", "wine vessel", "drinking">>],
       [key |-> "dining", kws |-> <<
            "dining", "eating", "food", "serving", "table", "banquet", "tableware">>],
       [key |-> "ceremonial", kws |-> <<
            "ceremonial", "ritual", "religious", "altar", "offering", "sacrifice",
            "temple">>],
       [key |-> "storage", kws |-> <<
            "storage", "container", "jar", "keeping", "preservation", "vessel", "tobacco">>],
       [key |-> "decorative", kws |-> <<
            "decorative", "display", "ornamental", "aesthetic", "ornament">>],
       [key |-> "scholarly", kws |-> <<
            "scholar", "study", "desk", "brush", "ink", "literati", "studio", "writing">>],
       [key |-> "cosmetic", kws |-> <<
            "cosmetic", "powder", "rouge", "mirror", "toiletry", "makeup">>],
       [key |-> "export", kws |-> <<
            "export", "trade", "commercial", "overseas", "maritime", "shipping", "canton">>],
       [key |-> "pharmaceutical", kws |-> <<
            "pharmaceutical", "apothecary", "medicine", "drug jar">>] >>

Default_material_keywords ==
    << [key |-> "porcelain", kws |-> <<
            "porcelain", "hard-paste", "soft-paste", "high-fired", "paste porcelain",
            "chinese porcelain">>],
       [key |-> "stoneware", kws |-> <<"stoneware", "stone ware", "proto-porcelain">>],
       [key |-> "earthenware", kws |-> <<
            "earthenware", "pottery", "terracotta", "ceramics", "faience", "delftware">>],
       [key |-> "ceramic", kws |-> <<"ceramic", "pottery">>] >>

Default_glaze_keywords ==
    << [key |-> "celadon", kws |-> <<
            "celadon", "longquan", "guan", "ge", "greenware", "yue ware", "ru ware">>],
       [key |-> "blue_white", kws |-> <<
            "blue and white", "underglaze blue", "cobalt", "qinghua", "ming blue",
            "delft blue">>],
       [key |-> "famille_rose", kws |-> <<
            "famille rose", "fencai", "overglaze enamel", "yangcai", "rose enamel">>],
       [key |-> "famille_verte", kws |-> <<
            "famille verte", "wucai", "five color", "kangxi colors">>],
       [key |-> "monochrome", kws |-> <<"monochrome", "single color", "solid glaze", "plain">>],
       [key |-> "crackle", kws |-> <<
            "crackle", "crazing", "ice crackle", "ge glaze", "craquelure">>],
       [key |-> "flambe", kws |-> <<"flambe", "transmutation", "jun glaze", "copper splash">>],
       [key |-> "sancai", kws |-> <<"sancai", "three color", "tang sancai", "tricolor">>],
       [key |-> "underglaze", kws |-> <<
            "underglaze", "underglaze red", "underglaze copper", "underglaze painting">>],
       [key |-> "overglaze", kws |-> <<"overglaze", "enamel", "enameled", "overglaze enamel">>],
       [key |-> "transfer", kws |-> <<
            "transfer", "transfer printed", "transfer print", "printed">>],
       [key |-> "tin_glaze", kws |-> <<
            "tin glaze", "tin-glazed", "tin glazed", "tin-glaze", "maiolica", "majolica",
            "faience", "fa#ence", "#mail stannif#re", "tinglazuur", "plateel", "fayence",
            "zinnglasur", "galleyware", "galliware", "delftware">>] >>

Default_production_keywords ==
    << [key |-> "jingdezhen", kws |-> <<
            "jingdezhen", "jiangxi", "imperial kiln", "porcelain capital", "ching-te-chen">>],
       [key |-> "longquan", kws |-> <<"longquan", "zhejiang", "longquan kiln">>],
       [key |-> "dehua", kws |-> <<
            "dehua", "fujian", "blanc de chine", "white porcelain", "te-hua">>],
       [key |-> "yixing", kws |-> <<"yixing", "jiangsu", "purple clay", "zisha">>],
       [key |-> "jun", kws |-> <<"jun", "junzhou", "henan", "jun kiln", "chun">>],
       [key |-> "ding", kws |-> <<"ding", "dingzhou", "hebei", "ding kiln">>],
       [key |-> "cizhou", kws |-> <<"cizhou", "hebei", "cizhou kiln", "tz'u-chou">>],
       [key |-> "yaozhou", kws |-> <<"yaozhou", "shaanxi", "yaozhou kiln">>],
       [key |-> "china", kws |-> <<
            "china", "chinese", "middle kingdom", "zhongguo", "chine", "cina", "kina">>],
       [key |-> "delft", kws |-> <<
            "delft", "delftware", "delfts", "delftse", "hollants porceleyn", "dutch delft",
            "de porceleyne fles", "de grieksche a", "de witte ster", "royal delft",
            "de delftse pauw", "delft pottery", "delfts blauw", "delft blue", "tin glaze",
            "tin-glaze", "tin glazed", "tin-glazed", "faience", "fa#ence", "plateel",
            "galleyware", "galliware", "maiolica", "majolica", "dutch blue and white",
            "dutch blue white", "tin glazuur", "tinglazuur">>],
       [key |-> "amsterdam", kws |-> <<"amsterdam", "amsterdamse">>],
       [key |-> "rotterdam", kws |-> <<"rotterdam", "rotterdamse">>],
       [key |-> "haarlem", kws |-> <<"haarlem", "haarlemse">>],
       [key |-> "makkum", kws |-> <<"makkum", "tichelaar", "friesland">>],
       [key |-> "netherlands", kws |-> <<
            "netherlands", "dutch", "holland", "nederlandse", "hollandse", "nederland">>],
       [key |-> "belgium", kws |-> <<"belgium", "belgian", "belgique", "belgie", "belgisch">>],
       [key |-> "brussels", kws |-> <<"brussels", "bruxelles", "brussel">>],
       [key |-> "antwerp", kws |-> <<"antwerp", "antwerpen", "anvers">>],
       [key |-> "tournai", kws |-> <<"tournai", "doornik">>],
       [key |-> "ghent", kws |-> <<"ghent", "gent", "gand">>],
       [key |-> "meissen", kws |-> <<"meissen", "dresden", "saxony">>],
       [key |-> "sevres", kws |-> <<"sevres", "vincennes">>],
       [key |-> "worcester", kws |-> <<"worcester", "dr wall">>],
       [key |-> "staffordshire", kws |-> <<"staffordshire", "stoke on trent">>],
       [key |-> "export", kws |-> <<
            "export", "canton", "guangzhou", "trade port", "chinese export",
            "export porcelain">>] >>

Default_period_keywords ==
    << [key |-> "tang", kws |-> <<
            "tang", "tang dynasty", "618-907", "7th century", "8th century", "9th century">>],
       [key |-> "song", kws |-> <<
            "song", "northern song", "southern song", "song dynasty", "960-1279",
            "10th century", "11th century", "12th century", "13th century">>],
       [key |-> "yuan", kws |-> <<
            "yuan", "mongol", "yuan dynasty", "1279-1368", "13th century", "14th century">>],
       [key |-> "ming", kws |-> <<
            "ming", "hongwu", "yongle", "xuande", "chenghua", "zhengde", "jiajing",
            "wanli", "tianqi", "chongzhen", "ming dynasty", "1368-1644", "14th century",
            "15th century", "16th century", "17th century">>],
       [key |-> "qing", kws |-> <<
            "qing", "shunzhi", "kangxi", "yongzheng", "qianlong", "jiaqing", "daoguang",
            "xianfeng", "tongzhi", "guangxu", "xuantong", "qing dynasty", "1644-1911",
            "17th century", "18th century", "19th century", "20th century">>],
       [key |-> "republic", kws |-> <<"republic", "minguo", "republic of china", "1912-1949">>],
       [key |-> "modern", kws |-> <<
            "modern", "contemporary", "20th century", "21st century", "1900s", "2000s">>],
       [key |-> "delft_golden_age", kws |-> <<
            "1640-1740", "dutch golden age", "17th century delft", "18th century delft">>],
       [key |-> "delft_revival", kws |-> <<
            "1870-1920", "delft revival", "new delft", "art nouveau delft">>] >>

Default_place_normalization ==
    << [key |-> "china", kws |-> <<
            "china", "chine", "cina", "kina", "kitajska", "txina", "k#na", "##na", "kiina",
            "hiina", "##na", "s#ne", "xina", "kinijos", "chinese", "chi#ska",
            "ljudska republika kitajska", "txinako herri errepublika",
            "repubblika tal-poplu ta#-#ina", "##### ########## ### #####",
            "daon-phoblacht na s#ne", "rep#blica popular de la xina",
            "kinijos liaudies respublika", "##", "zhongguo", "middle kingdom", "#####">>],
       [key |-> "vienna", kws |-> <<
            "vienna", "wien", "viena", "viin", "viede#", "#####", "b#cs", "vienne">>],
       [key |-> "netherlands", kws |-> <<
            "netherlands", "nederland", "holland", "pays-bas", "niederlande", "olanda",
            "pa#ses bajos", "pa#ses baixos", "paesi bassi", "holandia", "hollanda">>],
       [key |-> "belgium", kws |-> <<
            "belgium", "belgique", "belgi#", "belgien", "b#lgica", "belgio", "belgia">>],
       [key |-> "brussels", kws |-> <<
            "brussels", "bruxelles", "brussel", "an bhruis#il", "brisele", "briseles",
            "briuselio", "briuselis", "bruksela", "brusel", "brusela", "br#ssel">>],
       [key |-> "united_kingdom", kws |-> <<
            "united kingdom", "uk", "britain", "great britain", "england",
            "an r#ocht aontaithe", "apvienot# karaliste", "egyes#lt kir#lys#g",
            "erresuma batua", "regatul unit">>],
       [key |-> "japan", kws |-> <<"japan", "nippon", "an tseap#in", "##">>] >>

\* KeywordDictionary.__init__ without a configuration file.
DefaultKD ==
    [color_keywords      |-> Default_color_keywords,
     decoration_themes   |-> Default_decoration_themes,
     shape_keywords      |-> Default_shape_keywords,
     function_keywords   |-> Default_function_keywords,
     material_keywords   |-> Default_material_keywords,
     glaze_keywords      |-> Default_glaze_keywords,
     production_keywords |-> Default_production_keywords,
     period_keywords     |-> Default_period_keywords,
     place_normalization |-> Default_place_normalization]

\* The keys of a dict, in insertion order.
Keys(d) == [i \in 1..Len(d) |-> d[i].key]

\* a variant in which the last entry with a matching variant wins
last_substring_key(d, s, fold_case) ==
    LET hits == {i \in 1..Len(d) :
                    \E j \in 1..Len(d[i].kws) :
                        Contains(IF fold_case THEN lower(d[i].kws[j]) ELSE d[i].kws[j], s)}
    IN  IF hits = {} THEN None ELSE d[Max(hits)].key

\* The first key of dict d (in insertion order) one of whose keywords is a
\* substring of s, or None: the loops "for name, kws in d.items(): for k in
\* kws: if k in s: return name".
\* fold_case: the keyword is lower-cased before the test (keyword.lower() in s).
first_substring_key(d, s, fold_case) ==
    LET hits == {i \in 1..Len(d) :
                    \E j \in 1..Len(d[i].kws) :
                        Contains(IF fold_case THEN lower(d[i].kws[j]) ELSE d[i].kws[j], s)}
    IN  IF hits = {} THEN None ELSE d[Min(hits)].key

(***************************************************************************)
(* KeywordDictionary.get_dynasty_from_year                                 *)
(***************************************************************************)
\* a variant that tests the ranges from the last declared to the first
get_dynasty_last_declared(y) ==
    IF y >= 1950 THEN "Modern"
    ELSE IF 1912 <= y /\ y <= 1949 THEN "Republic"
    ELSE IF 1644 <= y /\ y <= 1911 THEN "Qing"
    ELSE IF 1368 <= y /\ y <= 1644 THEN "Ming"
    ELSE IF 1279 <= y /\ y <= 1368 THEN "Yuan"
    ELSE IF 960 <= y /\ y <= 1279 THEN "Song"
    ELSE IF 618 <= y /\ y <= 907 THEN "Tang"
    ELSE "Unknown"

get_dynasty_from_year(y) ==
    IF 618 <= y /\ y <= 907 THEN "Tang"
    ELSE IF 960 <= y /\ y <= 1279 THEN "Song"
    ELSE IF 1279 <= y /\ y <= 1368 THEN "Yuan"
    ELSE IF 1368 <= y /\ y <= 1644 THEN "Ming"
    ELSE IF 1644 <= y /\ y <= 1911 THEN "Qing"
    ELSE IF 1912 <= y /\ y <= 1949 THEN "Republic"
    ELSE IF y >= 1950 THEN "Modern"
    ELSE "Unknown"

(***************************************************************************)
(* KeywordDictionary.normalize_place                                       *)
(***************************************************************************)
museum_keywords ==
    <<"museum", "gallery", "collection", "hallwyl", "herstellung", "manufacture">>

\* the longest input the fall-through branch returns
PlaceLengthCap == 50

\* a variant that consults the tables before the institution filter
normalize_place_tables_first(self, p) ==
    IF p = None \/ p = "" THEN p
    ELSE LET place_lower == strip(lower(p))
             standard_name == first_substring_key(self.place_normalization, place_lower, FALSE)
             place_type == first_substring_key(self.production_keywords, place_lower, TRUE)
         IN  IF standard_name # None THEN standard_name
             ELSE IF place_type # None THEN place_type
             ELSE IF \E k \in Range(museum_keywords) : Contains(k, place_lower) THEN None
             ELSE IF Len(p) > PlaceLengthCap THEN None
             ELSE p

\* a variant that folds a Brussels match into the country inside the lookup
normalize_place_country(self, p) ==
    IF p = None \/ p = "" THEN p
    ELSE LET place_lower == strip(lower(p))
             standard_name == first_substring_key(self.place_normalization, place_lower, FALSE)
             place_type == first_substring_key(self.production_keywords, place_lower, TRUE)
         IN  IF \E k \in Range(museum_keywords) : Contains(k, place_lower) THEN None
             ELSE IF standard_name = "brussels" THEN "belgium"
             ELSE IF standard_name # None THEN standard_name
             ELSE IF place_type # None THEN place_type
             ELSE IF Len(p) > PlaceLengthCap THEN None
             ELSE p

normalize_place(self, p) ==
    IF p = None \/ p = "" THEN p
    ELSE LET place_lower == strip(lower(p))
             standard_name == first_substring_key(self.place_normalization, place_lower, FALSE)
             place_type == first_substring_key(self.production_keywords, place_lower, TRUE)
         IN  IF \E k \in Range(museum_keywords) : Contains(k, place_lower) THEN None
             ELSE IF standard_name # None THEN standard_name
             ELSE IF place_type # None THEN place_type
             ELSE IF Len(p) > PlaceLengthCap THEN None
             ELSE p


(***************************************************************************)
(* KeywordDictionary.update_category                                       *)
(***************************************************************************)
\* the attribute f"{category}_keywords"
category_attribute(category) == category \o "_keywords"

\* KeywordDictionary.update_category
update_category(self, category, new_dict) ==
    IF category_attribute(category) \in DOMAIN self
    THEN [self EXCEPT ![category_attribute(category)] = new_dict]
    ELSE self

(***************************************************************************)
(* re: the pattern shapes the extractors use                               *)
(***************************************************************************)
IsWordAt(t, i) == i >= 1 /\ i <= Len(t) /\ Char(t, i) \in WordChars

\* \b holds between the characters i-1 and i of t
Boundary(t, i) == IsWordAt(t, i - 1) # IsWordAt(t, i)

LiteralAt(t, i, w) == i + Len(w) - 1 <= Len(t) /\ SubSeq(t, i, i + Len(w) - 1) = w

\* the positions of t where \b holds
boundaries(t) == {i \in 1..(Len(t) + 1) : Boundary(t, i)}

\* re.search(r'\b' + re.escape(keyword) + r'\b', t), with bs = boundaries(t)
word_search(keyword, t, bs) ==
    \E i \in bs : LiteralAt(t, i, keyword) /\ (i + Len(keyword)) \in bs

RECURSIVE skip_whitespace(_, _)
\* the position after the whitespace run that starts at i
skip_whitespace(t, i) ==
    IF i <= Len(t) /\ Char(t, i) \in Whitespace THEN skip_whitespace(t, i + 1) ELSE i

RECURSIVE words_at(_, _, _)
\* the pattern w1\s+w2\s+...wn matches at position i of t
words_at(t, i, words) ==
    /\ LiteralAt(t, i, Head(words))
    /\ \/ Len(words) = 1
       \/ LET j == i + Len(Head(words))
          IN  /\ skip_whitespace(t, j) > j
              /\ words_at(t, skip_whitespace(t, j), Tail(words))

\* re.search of a pattern w1\s+...\s+(?:a1|a2|...) in t
search_words(t, words, alternatives) ==
    \E i \in 1..Len(t) : \E a \in alternatives : words_at(t, i, Append(words, a))

(***************************************************************************)
(* JSON-like values of a record                                            *)
(***************************************************************************)
Str(s) == [t |-> "str", s |-> s]

List(xs) == [t |-> "list", xs |-> xs]

\* {'def': s} with a str s
Def(s) == [t |-> "dict", def |-> s]

\* {'def': v} with a value v that is not a str
DefValue(v) == [t |-> "def_value", v |-> v]

Num(n) == [t |-> "int", n |-> n]

NoneValue == [t |-> "none"]

\* not v
Falsy(v) ==
    \/ v.t = "none"
    \/ (v.t = "str" /\ v.s = "")
    \/ (v.t = "list" /\ v.xs = <<>>)
    \/ (v.t = "int" /\ v.n = 0)

DigitChars == "0123456789"

RECURSIVE to_str(_)
\* str(n) of a natural number
to_str(n) ==
    IF n < 10 THEN Char(DigitChars, n + 1) ELSE to_str(n \div 10) \o Char(DigitChars, (n % 10) + 1)

RECURSIVE join(_, _)
\* sep.join(parts)
join(sep, parts) ==
    IF parts = <<>> THEN ""
    ELSE IF Len(parts) = 1 THEN parts[1]
    ELSE parts[1] \o sep \o join(sep, Tail(parts))

HasField(it, f) == f \in DOMAIN it

\* repr of a str without backslash: '...' unless it contains a single quote
repr(s) == IF Contains("'", s) THEN "\"" \o s \o "\"" ELSE "'" \o s \o "'"

RECURSIVE py_repr(_)
\* repr(value)
py_repr(v) ==
    IF v.t = "str" THEN repr(v.s)
    ELSE IF v.t = "int" THEN to_str(v.n)
    ELSE IF v.t = "none" THEN "None"
    ELSE IF v.t = "list" THEN "[" \o join(", ", [i \in 1..Len(v.xs) |-> py_repr(v.xs[i])]) \o "]"
    ELSE IF v.t = "def_value" THEN "{'def': " \o py_repr(v.v) \o "}"
    ELSE "{'def': " \o repr(v.def) \o "}"

\* str(value) for an element of a list field
py_str(v) == IF v.t = "str" THEN v.s ELSE py_repr(v)

RECURSIVE _flatten_list(_)
\* DataMapper._flatten_list on the elements of a list
_flatten_list(xs) ==
    IF xs = <<>> THEN <<>>
    ELSE LET x == Head(xs)
         IN  (IF x.t = "list" THEN _flatten_list(x.xs)
              ELSE IF x.t = "none" THEN <<>>
              ELSE <<[v |-> x, p |-> py_str(x)]>>) \o _flatten_list(Tail(xs))

\* json.loads(p.replace("'", '"')) succeeds on the str of {'def': s} exactly
\* when s holds no quote character; the element is then replaced by s.
unwrap_def(e) ==
    IF startswith(e.p, "{") /\ Contains("def", e.p) /\ e.v.t = "dict"
           /\ ~Contains("'", e.v.def) /\ ~Contains("\"", e.v.def)
    THEN e.v.def
    ELSE e.p

RECURSIVE json_loads_ok(_)
\* json.loads accepts the text that repr(v).replace("'", '"') gives for v
json_loads_ok(v) ==
    IF v.t = "int" THEN TRUE
    ELSE IF v.t = "str" THEN ~Contains("'", v.s) /\ ~Contains("\"", v.s)
    ELSE IF v.t = "list" THEN \A i \in 1..Len(v.xs) : json_loads_ok(v.xs[i])
    ELSE FALSE

\* the element of a list field is replaced by the value of its 'def' key,
\* which is not a str
unwraps_to_value(e) == e.v.t = "def_value" /\ json_loads_ok(e.v.v)

(***************************************************************************)
(* DataMapper.extract_production_place                                     *)
(***************************************************************************)
place_fields ==
    <<"edmPlaceLabel", "placeLabel", "place", "origin", "provenance", "production">>

\* the longest normalized name that is kept is one character shorter
NormalizedLengthLimit == 50

kept(normalized) ==
    IF normalized # None /\ normalized # "" /\ Len(normalized) < NormalizedLengthLimit
    THEN {normalized} ELSE {}

\* step 1 for one field value
places_of_field(self, place_data) ==
    IF place_data.t = "list"
    THEN LET ps == _flatten_list(place_data.xs)
         IN  UNION {IF ps[i].p # "" /\ ~unwraps_to_value(ps[i])
                    THEN kept(normalize_place(self, unwrap_def(ps[i]))) ELSE {}
                        : i \in 1..Len(ps)}
    ELSE IF place_data.t = "str"
    THEN (IF place_data.s # "" THEN kept(normalize_place(self, place_data.s)) ELSE {})
    ELSE IF place_data.t = "dict" /\ HasField(place_data, "def")
    THEN kept(normalize_place(self, place_data.def))
    ELSE {}

\* step 1 for one field value ends with AttributeError: normalize_place is
\* handed a value that is neither falsy nor a str and calls place.lower()
place_field_raises(place_data) ==
    IF place_data.t = "list"
    THEN \E e \in Range(_flatten_list(place_data.xs)) :
             e.p # "" /\ unwraps_to_value(e) /\ ~Falsy(e.v.v)
    ELSE place_data.t = "def_value" /\ ~Falsy(place_data.v)

\* DataMapper.extract_production_place raises on the record
production_place_raises(it) ==
    \E f \in 1..Len(place_fields) :
        HasField(it, place_fields[f]) /\ place_field_raises(it[place_fields[f]])

\* step 1: the dedicated place fields of the record
places_from_fields(self, it) ==
    UNION {IF HasField(it, place_fields[f]) THEN places_of_field(self, it[place_fields[f]]) ELSE {}
               : f \in 1..Len(place_fields)}

delft_patterns(text_lower) ==
    \/ Contains("delft", text_lower)                       \* delft(?:ware|se?)?
    \/ search_words(text_lower, <<"dutch">>, {"delft", "pottery", "ceramic"})
    \/ search_words(text_lower, <<"hollants">>, {"porceleyn"})
    \/ search_words(text_lower, <<"de", "porceleyne">>, {"fles"})
    \/ search_words(text_lower, <<"royal">>, {"delft"})

belgian_patterns(text_lower) ==
    \/ search_words(text_lower, <<"belgian">>, {"pottery", "ceramic", "porcelain"})
    \/ search_words(text_lower, <<"brussels">>, {"pottery", "ceramic"})
    \/ search_words(text_lower, <<"antwerp">>, {"pottery", "ceramic"})
    \/ search_words(text_lower, <<"tournai">>, {"pottery", "ceramic"})

\* the keys of dict d one of whose keywords occurs in t as a whole word
keys_found(d, t) ==
    LET bs == boundaries(t)
    IN  {d[i].key : i \in {k \in 1..Len(d) :
                               \E j \in 1..Len(d[k].kws) : word_search(d[k].kws[j], t, bs)}}

\* step 2: the free text
places_from_text(self, txt) ==
    IF txt = "" THEN {}
    ELSE LET text_lower == lower(txt)
         IN  keys_found(self.production_keywords, text_lower)
                 \cup (IF delft_patterns(text_lower) THEN {"delft"} ELSE {})
                 \cup (IF belgian_patterns(text_lower) THEN {"belgium"} ELSE {})

museum_locations == {"vienna", "stockholm", "london", "paris", "new york"}

\* a variant of the clean-up that keeps the city-level tag
clean_places_without_fold(places) == places \ museum_locations

\* step 3: drop the museum host cities, merge brussels into belgium
clean_places(places) ==
    LET no_museum == places \ museum_locations
    IN  IF "brussels" \in no_museum
        THEN (no_museum \cup {"belgium"}) \ {"brussels"}
        ELSE no_museum

priority_order ==
    <<"jingdezhen", "delft", "longquan", "dehua", "yixing", "jun", "ding", "cizhou",
      "amsterdam", "rotterdam", "haarlem", "makkum",
      "antwerp", "tournai", "ghent",
      "china", "netherlands", "belgium",
      "meissen", "sevres", "worcester",
      "export">>

\* the printable ASCII characters (without the backquote) by increasing code point
CodePoints ==
    " !\"#$%&'()*+,-./0123456789:;<=>?@ABCDEFGHIJKLMNOPQRSTUVWXYZ[\\]^_abcdefghijklmnopqrstuvwxyz{|}~"

\* the rank of ord(c) ("#" is the stand-in of a letter beyond ASCII)
ord(c) == IF c = "#" THEN Len(CodePoints) + 1 ELSE CHOOSE i \in 1..Len(CodePoints) : Char(CodePoints, i) = c

RECURSIVE str_less(_, _)
\* a < b for str
str_less(a, b) ==
    IF b = "" THEN FALSE
    ELSE IF a = "" THEN TRUE
    ELSE IF Char(a, 1) = Char(b, 1) THEN str_less(SubSeq(a, 2, Len(a)), SubSeq(b, 2, Len(b)))
    ELSE ord(Char(a, 1)) < ord(Char(b, 1))

RECURSIVE sorted(_)
\* sorted(S) for a set of str
sorted(S) ==
    IF S = {} THEN <<>>
    ELSE LET least == CHOOSE x \in S : \A y \in S \ {x} : str_less(x, y)
         IN  <<least>> \o sorted(S \ {least})

\* the members of sequence s that belong to set S, in the order of s
filter_seq(s, S) ==
    LET idx == {i \in 1..Len(s) : s[i] \in S}
        nth(k) == CHOOSE i \in idx : Cardinality({j \in idx : j < i}) = k - 1
    IN  [k \in 1..Cardinality(idx) |-> s[nth(k)]]

\* s[:n]
take(s, n) == SubSeq(s, 1, IF Len(s) < n THEN Len(s) ELSE n)

MaxProductionPlaces == 10

\* step 4: priority places first, the others sorted, at most 10
order_places(places) ==
    take(filter_seq(priority_order, places) \o sorted(places \ Range(priority_order)),
         MaxProductionPlaces)

discovered_places(self, it, txt) == places_from_fields(self, it) \cup places_from_text(self, txt)

extract_production_place(self, it, txt) ==
    order_places(clean_places(discovered_places(self, it, txt)))

\* the concatenation of a sequence of strings
RECURSIVE concat(_)
\* "".join(parts)
concat(parts) == IF parts = <<>> THEN "" ELSE Head(parts) \o concat(Tail(parts))

(***************************************************************************)
(* set and list                                                            *)
(***************************************************************************)
\* hash(s) of the running interpreter.  String hashes are salted with a
\* per-process seed; the salted hash is represented by a small mixing
\* function of the seed and the characters at both ends of the string.
str_hash(s, seed) ==
    IF s = "" THEN 0
    ELSE (ord(Char(s, 1)) * (seed + 1) + ord(Char(s, Len(s))) * (2 * seed + 3)
              + Len(s) * (5 * seed + 1)) % 13

\* x is iterated before y in a set of this process
iterates_before(x, y, seed) ==
    \/ str_hash(x, seed) < str_hash(y, seed)
    \/ str_hash(x, seed) = str_hash(y, seed) /\ str_less(x, y)

RECURSIVE list_of_set(_, _)
\* list(S) for a set S of str: the iteration order follows the hashes
list_of_set(S, seed) ==
    IF S = {} THEN <<>>
    ELSE LET first == CHOOSE x \in S : \A y \in S \ {x} : iterates_before(x, y, seed)
         IN  <<first>> \o list_of_set(S \ {first}, seed)

\* [f(x) for x in s if x in S], as the subsequence of s at the positions idx
subseq_at(s, idx) ==
    LET nth(k) == CHOOSE i \in idx : Cardinality({j \in idx : j < i}) = k - 1
    IN  [k \in 1..Cardinality(idx) |-> s[nth(k)]]

\* a variant that keeps the duplicates
keep_duplicates(s) == s

\* the list without the later duplicates, compared in lower case
dedupe_lower(s) ==
    subseq_at(s, {i \in 1..Len(s) : \A j \in 1..(i - 1) : lower(s[j]) # lower(s[i])})

\* str.replace(old, new) for a single character old
replace_char(s, old, new) ==
    concat([i \in 1..Len(s) |-> IF Char(s, i) = old THEN new ELSE Char(s, i)])

(***************************************************************************)
(* re.findall of the capture patterns                                      *)
(*   <prefix words joined by \s+> <gap> ([class]+?) (?:terminators)        *)
(***************************************************************************)
\* the length of the whitespace run that starts at position p
spaces_at(t, p) == skip_whitespace(t, p) - p

RECURSIVE prefix_ends(_, _, _)
\* the positions after a match, at position i, of the words (one alternative
\* of each set) separated by \s+
prefix_ends(t, i, words) ==
    LET ends == {i + Len(w) : w \in {a \in Head(words) : LiteralAt(t, i, a)}}
    IN  IF Len(words) = 1 THEN ends
        ELSE UNION {IF spaces_at(t, e) >= 1
                    THEN prefix_ends(t, skip_whitespace(t, e), Tail(words))
                    ELSE {} : e \in ends}

\* a, a-1, ..., b
descending(a, b) == [k \in 1..(a - b + 1) |-> a - k + 1]

\* The start positions the backtracking matcher tries for the capture group,
\* in the order it tries them, once the prefix has ended at position e:
\*   gap "none"    : the group follows the prefix directly
\*   gap "spaces"  : \s+ (greedy) precedes the group
\*   gap "optword" : \s+ (?:optional word)? \s* precedes the group
capture_starts(t, e, pattern) ==
    IF pattern.gap = "none" THEN <<e>>
    ELSE LET k == spaces_at(t, e)
             q == e + k
         IN  IF k = 0 THEN <<>>
             ELSE IF pattern.gap = "spaces" THEN descending(q, e + 1)
             ELSE LET after == {q + Len(w) : w \in {a \in pattern.optional : LiteralAt(t, q, a)}}
                      with_word == IF after = {} THEN <<>>
                                   ELSE LET a == CHOOSE x \in after : TRUE
                                        IN  descending(a + spaces_at(t, a), a)
                  IN  with_word \o descending(q, e + 1)

\* the length of the lazy group ([class]+?) that starts at c: the least n >= 1
\* with n class characters followed by a terminator; 0 when there is none
lazy_group(t, c, pattern) ==
    LET stops == {k \in c..Len(t) : Char(t, k) \notin pattern.class}
        span == IF stops = {} THEN Len(t) - c + 1 ELSE Min(stops) - c
        ok == {n \in 1..span : \E term \in pattern.terminators : LiteralAt(t, c + n, term)}
    IN  IF ok = {} THEN 0 ELSE Min(ok)

\* the capture group found from the first start position c that works:
\* [start, len] of the group and the position after the match
group_at(t, c, pattern) ==
    LET match(n) == [start |-> c, len |-> n,
                     next |-> c + n + Len(CHOOSE x \in pattern.terminators : LiteralAt(t, c + n, x))]
    IN  match(lazy_group(t, c, pattern))

\* the match of pattern that starts at position i; len = 0 when there is no
\* match at i
match_at(t, i, pattern) ==
    LET first_of(starts) ==
            LET good == {k \in 1..Len(starts) : lazy_group(t, starts[k], pattern) > 0}
            IN  IF good = {} THEN [start |-> 0, len |-> 0, next |-> 0]
                ELSE group_at(t, starts[Min(good)], pattern)
        after(ends) ==
            first_of(IF ends = {} THEN <<>> ELSE capture_starts(t, CHOOSE e \in ends : TRUE, pattern))
    IN  after(prefix_ends(t, i, pattern.words))

RECURSIVE findall(_, _, _, _)
\* re.findall(pattern, t)[:limit], scanning from position pos
findall(t, pos, pattern, limit) ==
    LET hits == {i \in pos..Len(t) : match_at(t, i, pattern).len > 0}
        from(m) == <<SubSeq(t, m.start, m.start + m.len - 1)>>
                       \o findall(t, m.next, pattern, limit - 1)
    IN  IF limit = 0 \/ hits = {} THEN <<>> ELSE from(match_at(t, Min(hits), pattern))


(***************************************************************************)
(* KeywordDictionary.add_keyword and remove_keyword                        *)
(***************************************************************************)
\* getattr(self, f"{category}_keywords", None) is not None
has_category(self, category) == category_attribute(category) \in DOMAIN self

\* key in category_dict
has_key(d, key) == \E i \in 1..Len(d) : d[i].key = key

\* the dict d with the list of key replaced by kws
with_keywords(d, key, kws) ==
    [i \in 1..Len(d) |-> IF d[i].key = key THEN [key |-> key, kws |-> kws] ELSE d[i]]

\* category_dict[key]
keywords_of(d, key) == d[CHOOSE i \in 1..Len(d) : d[i].key = key].kws

\* a variant that removes the duplicates of the list of a new key as well
add_keyword_deduplicating(self, category, key, keywords, seed) ==
    IF ~has_category(self, category) THEN self
    ELSE LET attribute == category_attribute(category)
         IN  IF has_key(self[attribute], key)
             THEN [self EXCEPT ![attribute] =
                      with_keywords(@, key,
                          list_of_set(Range(keywords_of(@, key)) \cup Range(keywords), seed))]
             ELSE [self EXCEPT ![attribute] =
                      Append(@, [key |-> key, kws |-> list_of_set(Range(keywords), seed)])]

\* KeywordDictionary.add_keyword
add_keyword(self, category, key, keywords, seed) ==
    IF ~has_category(self, category) THEN self
    ELSE LET attribute == category_attribute(category)
         IN  IF has_key(self[attribute], key)
             THEN [self EXCEPT ![attribute] =
                      with_keywords(@, key,
                          list_of_set(Range(keywords_of(@, key)) \cup Range(keywords), seed))]
             ELSE [self EXCEPT ![attribute] = Append(@, [key |-> key, kws |-> keywords])]

\* a variant that drops the whole list of the key when a keyword is removed
remove_keyword_whole_list(self, category, key, keywords) ==
    IF ~has_category(self, category) THEN self
    ELSE LET attribute == category_attribute(category)
         IN  IF has_key(self[attribute], key)
                  /\ Range(keywords_of(self[attribute], key)) \cap Range(keywords) # {}
             THEN [self EXCEPT ![attribute] = with_keywords(@, key, <<>>)]
             ELSE self

\* KeywordDictionary.remove_keyword
remove_keyword(self, category, key, keywords) ==
    IF ~has_category(self, category) THEN self
    ELSE LET attribute == category_attribute(category)
             stays(k) == k \notin Range(keywords)
         IN  IF has_key(self[attribute], key)
             THEN [self EXCEPT ![attribute] =
                      with_keywords(@, key, SelectSeq(keywords_of(@, key), stays))]
             ELSE self

(***************************************************************************)
(* DataMapper: the keyword extractors                                      *)
(***************************************************************************)
\* the keywords of entry e that occur in t as whole words, by position in e
hits_of(e, t, bs) == {j \in 1..Len(e.kws) : word_search(e.kws[j], t, bs)}

\* the entries of dict d with at least one keyword hit
entries_hit(d, t, bs) == {i \in 1..Len(d) : hits_of(d[i], t, bs) # {}}

\* DataMapper.extract_colored_drawing
extract_colored_drawing(self, txt, seed) ==
    IF txt = "" THEN <<>>
    ELSE LET text_lower == lower(txt)
             bs == boundaries(text_lower)
             colors_found == {self.color_keywords[i].key :
                                 i \in entries_hit(self.color_keywords, text_lower, bs)}
         IN  list_of_set(colors_found, seed)

decoration_class == WordChars \cup Whitespace \cup {","}

decoration_terminators == {".", ",", ";", "and"}

decoration_pattern(literal) ==
    [words |-> <<{literal}>>, gap |-> "none", optional |-> {},
     class |-> decoration_class, terminators |-> decoration_terminators]

decoration_patterns ==
    <<[pattern |-> decoration_pattern("decorated with "), prefix |-> "decorated"],
      [pattern |-> decoration_pattern("depicting "), prefix |-> "depicting"],
      [pattern |-> decoration_pattern("painted with "), prefix |-> "painted"],
      [pattern |-> decoration_pattern("design of "), prefix |-> "design"],
      [pattern |-> decoration_pattern("motif of "), prefix |-> "motif"],
      [pattern |-> decoration_pattern("pattern of "), prefix |-> "pattern"]>>

RECURSIVE flatten(_)
\* the concatenation of a list of lists
flatten(ss) == IF ss = <<>> THEN <<>> ELSE Head(ss) \o flatten(Tail(ss))

MaxKeywordsPerTheme == 3

MaxMatchesPerPattern == 2

MaxDecorationLength == 50

MaxDecorations == 15

\* "prefix:capture" for the first matches of each pattern whose capture is
\* shorter than max_length
pattern_captures(patterns, text_lower, max_length) ==
    LET short(matches) == subseq_at(matches, {m \in 1..Len(matches) : Len(matches[m]) < max_length})
        labelled(prefix, found) == [k \in 1..Len(found) |-> prefix \o ":" \o strip(found[k])]
    IN  flatten([p \in 1..Len(patterns) |->
                    labelled(patterns[p].prefix,
                             short(findall(text_lower, 1, patterns[p].pattern, MaxMatchesPerPattern)))])

\* a variant that tags every keyword hit of a theme
all_decorations_every_hit(self, txt, seed) ==
    LET text_lower == lower(txt)
        bs == boundaries(text_lower)
        themes == self.decoration_themes
        theme_entries ==
            flatten([i \in 1..Len(themes) |->
                LET theme_decorations == subseq_at(themes[i].kws, hits_of(themes[i], text_lower, bs))
                    first == theme_decorations
                IN  [k \in 1..Len(first) |-> themes[i].key \o ":" \o first[k]]])
        colors == extract_colored_drawing(self, txt, seed)
        color_entries == [k \in 1..Len(colors) |-> "color:" \o colors[k]]
        decorations == theme_entries \o color_entries
                           \o pattern_captures(decoration_patterns, text_lower, MaxDecorationLength)
    IN  dedupe_lower(decorations)

\* the decorations before the final slice
all_decorations(self, txt, seed) ==
    LET text_lower == lower(txt)
        bs == boundaries(text_lower)
        themes == self.decoration_themes
        theme_entries ==
            flatten([i \in 1..Len(themes) |->
                LET theme_decorations == subseq_at(themes[i].kws, hits_of(themes[i], text_lower, bs))
                    first == take(theme_decorations, MaxKeywordsPerTheme)
                IN  [k \in 1..Len(first) |-> themes[i].key \o ":" \o first[k]]])
        colors == extract_colored_drawing(self, txt, seed)
        color_entries == [k \in 1..Len(colors) |-> "color:" \o colors[k]]
        decorations == theme_entries \o color_entries
                           \o pattern_captures(decoration_patterns, text_lower, MaxDecorationLength)
    IN  dedupe_lower(decorations)

\* a variant that returns every unique decoration
extract_decorations_uncapped(self, txt, seed) ==
    IF txt = "" THEN <<>> ELSE all_decorations(self, txt, seed)

\* DataMapper.extract_decorations
extract_decorations(self, txt, seed) ==
    IF txt = "" THEN <<>> ELSE take(all_decorations(self, txt, seed), MaxDecorations)

MaxShapes == 5

\* the shapes before the final slice
all_shapes(self, txt, seed) ==
    LET text_lower == lower(txt)
        bs == boundaries(text_lower)
        d == self.shape_keywords
        shapes_found == {d[i].key : i \in entries_hit(d, text_lower, bs)}
        shape_details == UNION {{d[i].kws[j] : j \in hits_of(d[i], text_lower, bs)} \ {d[i].key}
                                    : i \in 1..Len(d)}
        result == list_of_set(shapes_found, seed)
        details == list_of_set(shape_details, seed)
    IN  result \o subseq_at(details, {k \in 1..Len(details) : details[k] \notin shapes_found})

\* DataMapper.extract_shape
extract_shape(self, txt, seed) ==
    IF txt = "" THEN <<>> ELSE take(all_shapes(self, txt, seed), MaxShapes)

\* DataMapper.extract_function
extract_function(self, txt, seed) ==
    IF txt = "" THEN <<>>
    ELSE LET text_lower == lower(txt)
             bs == boundaries(text_lower)
             d == self.function_keywords
         IN  list_of_set({d[i].key : i \in entries_hit(d, text_lower, bs)}, seed)

\* DataMapper.extract_material
extract_material(self, txt, seed) ==
    IF txt = "" THEN <<>>
    ELSE LET text_lower == lower(txt)
             bs == boundaries(text_lower)
             d == self.material_keywords
             found == {d[i].key : i \in entries_hit(d, text_lower, bs)}
             materials_found ==
                 IF found # {} THEN found
                 ELSE IF \E w \in {"ceramic", "pottery", "clay"} : Contains(w, text_lower)
                 THEN {"ceramic"}
                 ELSE IF \E w \in {"porcelain", "china"} : Contains(w, text_lower)
                 THEN {"porcelain"}
                 ELSE {}
         IN  list_of_set(materials_found, seed)

MaxGlazes == 5

\* the glazes before the final slice
all_glazes(self, txt, seed) ==
    LET text_lower == lower(txt)
        bs == boundaries(text_lower)
        d == self.glaze_keywords
        normalized_type(i) == replace_char(d[i].key, "_", " ")
        glazes_found ==
            UNION {IF hits_of(d[i], text_lower, bs) = {} THEN {}
                   ELSE {normalized_type(i)} \cup
                            ({d[i].kws[j] : j \in hits_of(d[i], text_lower, bs)}
                                 \ {d[i].key, normalized_type(i)})
                       : i \in 1..Len(d)}
    IN  list_of_set(glazes_found, seed)

\* DataMapper.extract_glaze
extract_glaze(self, txt, seed) ==
    IF txt = "" THEN <<>> ELSE take(all_glazes(self, txt, seed), MaxGlazes)

inscription_keywords ==
    <<"mark", "marked", "inscription", "inscribed", "character",
      "seal", "signature", "signed", "reign mark", "nianzhi",
      "nianzhao", "tang", "zhi", "zao", "six character",
      "four character", "seal mark", "reign title", "base mark">>

inscription_class == WordChars \cup Whitespace

inscription_terminators == {".", ",", ";"}

inscription_pattern(words, gap, optional) ==
    [words |-> words, gap |-> gap, optional |-> optional,
     class |-> inscription_class, terminators |-> inscription_terminators]

inscription_patterns ==
    <<[pattern |-> inscription_pattern(<<{"mark", "marked"}, {"of", "with", "reading"}>>, "spaces", {}),
       prefix |-> "mark"],
      [pattern |-> inscription_pattern(<<{"inscription"}, {"of", "reading"}>>, "spaces", {}),
       prefix |-> "inscription"],
      [pattern |-> inscription_pattern(<<{"six", "four", "two"}, {"character"}, {"mark"}>>,
                                       "optword", {"of", "reading"}),
       prefix |-> "character mark"],
      [pattern |-> inscription_pattern(<<{"reign"}, {"mark"}, {"of"}>>, "spaces", {}),
       prefix |-> "reign mark"],
      [pattern |-> inscription_pattern(<<{"signed"}>>, "spaces", {}),
       prefix |-> "signature"]>>

MaxInscriptionKeywords == 3

MaxInscriptionLength == 30

MaxInscriptions == 5

\* the inscriptions before the final slice
all_inscriptions(self, txt, seed) ==
    LET text_lower == lower(txt)
        found_keywords == subseq_at(inscription_keywords,
                              {k \in 1..Len(inscription_keywords) :
                                   Contains(inscription_keywords[k], text_lower)})
        d == self.period_keywords
        period_marks ==
            {"period mark:" \o d[i].key :
                i \in {k \in 1..Len(d) :
                          \E j \in 1..Len(d[k].kws) :
                              Contains(d[k].kws[j], text_lower) /\ Contains("mark", text_lower)}}
        inscriptions == Range(take(found_keywords, MaxInscriptionKeywords))
                            \cup Range(pattern_captures(inscription_patterns, text_lower,
                                                        MaxInscriptionLength))
                            \cup period_marks
    IN  list_of_set(inscriptions, seed)

\* DataMapper.extract_inscriptions
extract_inscriptions(self, txt, seed) ==
    IF txt = "" THEN <<>> ELSE take(all_inscriptions(self, txt, seed), MaxInscriptions)

(***************************************************************************)
(* KeywordDictionary.get_century_from_year and DataMapper.extract_period_info *)
(***************************************************************************)
\* int(c) of a digit character
digit_value(c) == (CHOOSE i \in 1..10 : Char(DigitChars, i) = c) - 1

RECURSIVE to_int(_)
\* int(s) of a string of digits
to_int(s) ==
    IF s = "" THEN 0 ELSE to_int(SubSeq(s, 1, Len(s) - 1)) * 10 + digit_value(Char(s, Len(s)))

\* the members of a set of integers by increasing value
ascending(S) ==
    [k \in 1..Cardinality(S) |-> CHOOSE x \in S : Cardinality({y \in S : y < x}) = k - 1]

\* sorted(s) of a list of integers without duplicates
sorted_years(s) == ascending(Range(s))

\* str.capitalize()
capitalize(s) ==
    IF s = "" THEN ""
    ELSE LET c == Char(s, 1)
             up == IF \E i \in 1..26 : Char(LowerCase, i) = c
                   THEN Char(UpperCase, CHOOSE i \in 1..26 : Char(LowerCase, i) = c)
                   ELSE c
         IN  up \o lower(SubSeq(s, 2, Len(s)))

\* KeywordDictionary.get_century_from_year
get_century_from_year(y) ==
    LET century == ((y - 1) \div 100) + 1
    IN  IF century = 1 THEN "1st century"
        ELSE IF century = 2 THEN "2nd century"
        ELSE IF century = 3 THEN "3rd century"
        ELSE to_str(century) \o "th century"

\* a nested dictionary of a record
Dict(d) == [t |-> "dict", d |-> d]

\* item.get('Metadata_for_Management', {}).get('Period', ''), with the
\* fallback to edmTimespanLabel when that value is empty
\* a variant that falls back to the description when the record has no
\* period field
period_data_or_description(it) ==
    LET nested == IF HasField(it, "Metadata_for_Management")
                     /\ HasField(it["Metadata_for_Management"], "d")
                     /\ HasField(it["Metadata_for_Management"].d, "Period")
                  THEN it["Metadata_for_Management"].d["Period"]
                  ELSE Str("")
    IN  IF Falsy(nested) /\ HasField(it, "edmTimespanLabel") THEN it["edmTimespanLabel"]
        ELSE IF Falsy(nested) /\ HasField(it, "description") THEN it["description"]
        ELSE nested

period_data(it) ==
    LET nested == IF HasField(it, "Metadata_for_Management")
                     /\ HasField(it["Metadata_for_Management"], "d")
                     /\ HasField(it["Metadata_for_Management"].d, "Period")
                  THEN it["Metadata_for_Management"].d["Period"]
                  ELSE Str("")
    IN  IF Falsy(nested) /\ HasField(it, "edmTimespanLabel") THEN it["edmTimespanLabel"] ELSE nested

\* the candidate string of one element of a list value
period_string_of(p) ==
    IF p.t = "str"
    THEN (IF strip(p.s) # "" /\ ~startswith(p.s, "http") THEN <<strip(p.s)>> ELSE <<>>)
    ELSE IF p.t = "dict" /\ HasField(p, "def")
    THEN (IF ~startswith(strip(p.def), "http") THEN <<strip(p.def)>> ELSE <<>>)
    ELSE <<>>

\* step 1: the period value as a list of candidate strings
period_strings(it) ==
    LET data == period_data(it)
    IN  IF data.t = "list" THEN flatten([i \in 1..Len(data.xs) |-> period_string_of(data.xs[i])])
        ELSE IF data.t = "none" THEN <<>>
        ELSE period_string_of(data)

\* DataMapper.extract_period_info ends with AttributeError: the value of
\* Metadata_for_Management is not a dict and has no get(), or the value of a
\* 'def' key is not a str and has no strip()
period_info_raises(it) ==
    IF HasField(it, "Metadata_for_Management")
           /\ it["Metadata_for_Management"].t \notin {"dict", "def_value"}
    THEN TRUE
    ELSE LET data == period_data(it)
         IN  IF data.t = "list"
             THEN \E i \in 1..Len(data.xs) : data.xs[i].t = "def_value"
             ELSE data.t = "def_value"

IsDigitAt(t, i) == i >= 1 /\ i <= Len(t) /\ Char(t, i) \in Digits

\* \b(1[0-9]{3}|20[0-2][0-9])\b matches at position i
year_at(t, i) ==
    /\ Boundary(t, i)
    /\ \A k \in i..(i + 3) : IsDigitAt(t, k)
    /\ \/ Char(t, i) = "1"
       \/ SubSeq(t, i, i + 1) = "20" /\ Char(t, i + 2) \in {"0", "1", "2"}
    /\ Boundary(t, i + 4)

MinValidYear == 1000

MaxValidYear == 2025

\* the years of re.findall on the 4-digit pattern that lie in the valid range
four_digit_years(t) ==
    LET valid(found) ==
            subseq_at(found, {k \in 1..Len(found) : found[k] >= MinValidYear /\ found[k] <= MaxValidYear})
        years_at(starts) == [k \in 1..Len(starts) |-> to_int(SubSeq(t, starts[k], starts[k] + 3))]
    IN  valid(years_at(ascending({i \in 1..Len(t) : year_at(t, i)})))

\* The century patterns, on lower-cased text (re.IGNORECASE): one or two
\* digits after \b, one of the suffixes, \s+ when spaced, the word, \b.
\* "#" stands for a letter outside Latin-1.
century_patterns ==
    << [suffixes |-> {"st", "nd", "rd", "th"}, spaced |-> TRUE, word |-> "century"],
       [suffixes |-> {"ème", "eme"}, spaced |-> TRUE, word |-> "siècle"],
       [suffixes |-> {"."}, spaced |-> TRUE, word |-> "jahrhundert"],
       [suffixes |-> {"º", "°"}, spaced |-> TRUE, word |-> "século"],
       [suffixes |-> {""}, spaced |-> TRUE, word |-> "###"],
       [suffixes |-> {""}, spaced |-> FALSE, word |-> "-luku"],
       [suffixes |-> {"."}, spaced |-> TRUE, word |-> "gadsimts"],
       [suffixes |-> {""}, spaced |-> TRUE, word |-> "am#ius"] >>

\* the pattern matches at position i with a group of n digits
century_match(t, i, n, pattern) ==
    /\ Boundary(t, i)
    /\ \A k \in i..(i + n - 1) : IsDigitAt(t, k)
    /\ \E suffix \in pattern.suffixes :
          /\ LiteralAt(t, i + n, suffix)
          /\ LET e == i + n + Len(suffix)
                 w == IF pattern.spaced THEN skip_whitespace(t, e) ELSE e
             IN  /\ pattern.spaced => w > e
                 /\ LiteralAt(t, w, pattern.word)
                 /\ Boundary(t, w + Len(pattern.word))

\* re.findall(pattern, period_str, re.IGNORECASE) as integers
century_matches(t, pattern) ==
    LET digits(i) == IF century_match(t, i, 2, pattern) THEN 2
                     ELSE IF century_match(t, i, 1, pattern) THEN 1 ELSE 0
        values(starts) ==
            [k \in 1..Len(starts) |-> to_int(SubSeq(t, starts[k], starts[k] + digits(starts[k]) - 1))]
    IN  values(ascending({i \in 1..Len(t) : digits(i) > 0}))

MaxCentury == 21

\* the centuries of one candidate string, pattern after pattern
centuries_of(period_str) ==
    LET valid(all) == subseq_at(all, {k \in 1..Len(all) : all[k] >= 1 /\ all[k] <= MaxCentury})
        found(t) == flatten([p \in 1..Len(century_patterns) |-> century_matches(t, century_patterns[p])])
    IN  valid(found(lower(period_str)))

\* the dynasties whose keywords occur in one candidate string
dynasties_of(self, period_str) ==
    LET d == self.period_keywords
        period_lower == lower(period_str)
        hit == {i \in 1..Len(d) : \E j \in 1..Len(d[i].kws) : Contains(d[i].kws[j], period_lower)}
    IN  [k \in 1..Cardinality(hit) |-> capitalize(d[ascending(hit)[k]].key)]

\* step 2: the years and the periods of one candidate string
years_of(period_str) ==
    LET mid_century(cs) == [k \in 1..Len(cs) |-> (cs[k] - 1) * 100 + 50]
    IN  four_digit_years(period_str) \o mid_century(centuries_of(period_str))

periods_of(self, period_str) ==
    LET labels(cs) == [k \in 1..Len(cs) |-> to_str(cs[k]) \o "th century"]
    IN  labels(centuries_of(period_str)) \o dynasties_of(self, period_str)

RECURSIVE infer_dynasties(_, _)
\* step 3: the dynasty of every year joins the periods unless it is there
infer_dynasties(periods, years) ==
    IF years = <<>> THEN periods
    ELSE LET dynasty == get_dynasty_from_year(Head(years))
         IN  infer_dynasties(IF dynasty # "Unknown" /\ dynasty \notin Range(periods)
                             THEN Append(periods, dynasty) ELSE periods,
                             Tail(years))

\* step 3: dynasty_info
dynasty_mapping(years) ==
    [y \in {x \in Range(years) : get_dynasty_from_year(x) # "Unknown"} |-> get_dynasty_from_year(y)]

\* step 4: the valid years without the later duplicates
unique_years_of(years) ==
    subseq_at(years, {i \in 1..Len(years) :
                         /\ years[i] >= MinValidYear /\ years[i] <= MaxValidYear
                         /\ \A j \in 1..(i - 1) : years[j] # years[i]})

MaxPeriodLength == 50

RECURSIVE unique_periods_from(_, _)
\* step 4: a period is kept unless it is itself among the lower-cased
\* periods kept so far
unique_periods_from(periods, seen) ==
    IF periods = <<>> THEN <<>>
    ELSE LET period == Head(periods)
         IN  IF period # "" /\ period \notin seen /\ Len(period) < MaxPeriodLength
             THEN <<period>> \o unique_periods_from(Tail(periods), seen \cup {lower(period)})
             ELSE unique_periods_from(Tail(periods), seen)

MaxSummaryPeriods == 5

MaxSummaryYears == 10

\* a variant of step 5 that leaves the lists of the summary whole
period_summary_whole(unique_periods, unique_years, years) ==
    [periods         |-> unique_periods,
     years           |-> sorted_years(unique_years),
     dynasty_mapping |-> dynasty_mapping(years),
     century         |-> IF unique_years # <<>> THEN get_century_from_year(unique_years[1]) ELSE None,
     date_range      |-> IF Len(unique_years) > 1
                         THEN to_str(Min(Range(unique_years))) \o "-" \o to_str(Max(Range(unique_years)))
                         ELSE IF unique_years # <<>> THEN to_str(unique_years[1]) ELSE None]

\* step 5: period_summary
period_summary_of(unique_periods, unique_years, years) ==
    [periods         |-> take(unique_periods, MaxSummaryPeriods),
     years           |-> take(sorted_years(unique_years), MaxSummaryYears),
     dynasty_mapping |-> dynasty_mapping(years),
     century         |-> IF unique_years # <<>> THEN get_century_from_year(unique_years[1]) ELSE None,
     date_range      |-> IF Len(unique_years) > 1
                         THEN to_str(Min(Range(unique_years))) \o "-" \o to_str(Max(Range(unique_years)))
                         ELSE IF unique_years # <<>> THEN to_str(unique_years[1]) ELSE None]

\* DataMapper.extract_period_info: the tuple (periods, years, period_summary)
extract_period_info(self, it) ==
    LET result(unique_periods, unique_years, years) ==
            [periods        |-> unique_periods,
             years          |-> unique_years,
             period_summary |-> period_summary_of(unique_periods, unique_years, years)]
        cleaned(found, years) ==
            result(unique_periods_from(infer_dynasties(found, years), {}), unique_years_of(years), years)
        parsed(strings) ==
            cleaned(flatten([i \in 1..Len(strings) |-> periods_of(self, strings[i])]),
                    flatten([i \in 1..Len(strings) |-> years_of(strings[i])]))
    IN  parsed(period_strings(it))

(***************************************************************************)
(* DataMapper.map_to_management_metadata                                   *)
(***************************************************************************)
\* item.get(f, default)
get(it, f, default) == IF HasField(it, f) THEN it[f] ELSE default

\* DataMapper._flatten_list on a value that need not be a list
flatten_value(v) ==
    IF v.t = "list" THEN [i \in 1..Len(_flatten_list(v.xs)) |-> _flatten_list(v.xs)[i].p]
    ELSE IF v.t = "none" THEN <<>>
    ELSE <<py_str(v)>>

\* the title of the record as a list
title_value_of(v) ==
    IF v.t = "list" THEN flatten_value(v) ELSE IF v.t = "str" THEN <<v.s>> ELSE <<>>

title_value(it) ==
    IF HasField(it, "title") THEN title_value_of(it["title"])
    ELSE IF HasField(it, "dcTitle") THEN title_value_of(it["dcTitle"])
    ELSE <<>>

\* the non-empty titles of dcTitle and title without the later duplicates
used_titles(it) ==
    LET all_titles == (IF HasField(it, "dcTitle") THEN flatten_value(it["dcTitle"]) ELSE <<>>)
                          \o (IF HasField(it, "title") THEN flatten_value(it["title"]) ELSE <<>>)
    IN  subseq_at(all_titles, {i \in 1..Len(all_titles) :
                                  /\ all_titles[i] # ""
                                  /\ \A j \in 1..(i - 1) : all_titles[j] # all_titles[i]})

quality_score(it) ==
    IF HasField(it, "description_quality") /\ it["description_quality"].t = "dict"
    THEN get(it["description_quality"].d, "score", Num(0))
    ELSE Num(0)

\* DataMapper.map_to_management_metadata
map_to_management_metadata(self, it) ==
    LET metadata(info) ==
            [Title                       |-> title_value(it),
             Used_Titles                 |-> used_titles(it),
             Identifier                  |-> get(it, "id", Str("")),
             Period                      |-> info.periods,
             Years                       |-> info.years,
             PeriodSummary               |-> info.period_summary,
             CompletenessLevel           |-> get(it, "europeanaCompleteness", get(it, "completeness", Num(0))),
             ProvidingInstitution        |-> get(it, "dataProvider", Str("")),
             ProvidingInstitutionCountry |-> get(it, "country", Str("")),
             DateofStorage               |-> get(it, "timestamp_created", Str("")),
             PreservationRecords         |->
                 [rights            |-> get(it, "rights", Str("")),
                  timestamp_created |-> get(it, "timestamp_created", Str("")),
                  timestamp_updated |-> get(it, "timestamp_update", Str("")),
                  quality_score     |-> quality_score(it)]]
    IN  metadata(extract_period_info(self, it))

(***************************************************************************)
(* KeywordDictionary.load_from_file                                        *)
(***************************************************************************)
\* the configuration source: a path with no file, a file that is not JSON, or
\* a file with the JSON value data
MissingFile == [t |-> "missing"]

NotJson == [t |-> "not_json"]

\* the key of the JSON object that holds each attribute
config_key ==
    [color_keywords |-> "color", decoration_themes |-> "decoration_themes",
     shape_keywords |-> "shape", function_keywords |-> "function",
     material_keywords |-> "material", glaze_keywords |-> "glaze",
     production_keywords |-> "production", period_keywords |-> "period"]

\* open() or json.load() raises, or data.get raises because data is no dict
load_fails(source) == source.t # "dict"

\* what load_from_file prints
load_message(source) ==
    IF load_fails(source) THEN "Failed to load keyword dictionary"
    ELSE "Successfully loaded keyword dictionary"

\* KeywordDictionary.load_from_file: the taxonomy after the call; the
\* exception of a failed load is caught inside the method
load_from_file(self, source) ==
    IF load_fails(source) THEN self
    ELSE [a \in DOMAIN self |->
             IF a \in DOMAIN config_key
             THEN get(source.d, config_key[a], <<>>)
             ELSE self[a]]

(***************************************************************************)
(* TextPreprocessor.extract_text_from_item (src/text_preprocessing.py)     *)
(***************************************************************************)
\* the characters with ord(char) > 127
NonAscii == {"#", "è", "é", "º"}

non_english_markers ==
    <<"och", "som", "den", "det", "ett", "med", "delle", "della", "dans", "avec", "pour",
      "der", "die", "das", "und">>

\* TextPreprocessor.simple_language_detect
simple_language_detect(t) ==
    LET decide(non_ascii_count, text_lower) ==
            IF 10 * non_ascii_count > 3 * Len(t) THEN "other"
            ELSE IF Cardinality({m \in 1..Len(non_english_markers) :
                                    Contains(" " \o non_english_markers[m] \o " ",
                                             " " \o text_lower \o " ")}) >= 3
            THEN "other"
            ELSE "en"
    IN  IF t = "" THEN "en"
        ELSE decide(Cardinality({i \in 1..Len(t) : Char(t, i) \in NonAscii}), lower(t))

priority_fields ==
    <<"dcDescription", "description", "dcTitle", "title", "edmConceptLabel", "conceptLabel">>

\* the text parts one field contributes: the English strings of a list, or
\* its first two other strings when none is English; a str as it is
text_parts_of(field_data) ==
    LET chosen(english_parts, other_parts) ==
            IF english_parts # <<>> THEN english_parts ELSE take(other_parts, 2)
        strings(xs) ==
            chosen(subseq_at(xs, {i \in 1..Len(xs) : simple_language_detect(xs[i]) = "en"}),
                   subseq_at(xs, {i \in 1..Len(xs) : simple_language_detect(xs[i]) # "en"}))
        is_text(part) == part.t = "str" /\ part.s # ""
        texts(selected) == strings([i \in 1..Len(selected) |-> selected[i].s])
        parts(xs) == texts(SelectSeq(xs, is_text))
    IN  IF field_data.t = "list" THEN parts(field_data.xs)
        ELSE IF field_data.t = "str" /\ field_data.s # "" THEN <<field_data.s>>
        ELSE <<>>

\* the longest text that is handed on
MaxTextLength == 2000

\* TextPreprocessor.extract_text_from_item
extract_text_from_item(it) ==
    LET limited(combined_text) == take(combined_text, MaxTextLength)
    IN  limited(join(" ", flatten([f \in 1..Len(priority_fields) |->
                                      IF HasField(it, priority_fields[f])
                                      THEN text_parts_of(it[priority_fields[f]])
                                      ELSE <<>>])))

(***************************************************************************)
(* DataMapper.map_to_descriptive_metadata (called without lda_topics)      *)
(***************************************************************************)
MaxDescriptions == 3

\* a variant that counts every indicator
quality_fraction_of_all(extraction_quality) ==
    [num |-> Cardinality(DOMAIN extraction_quality), den |-> Cardinality(DOMAIN extraction_quality)]

\* sum(extraction_quality.values()) / len(extraction_quality): a fraction
\* num/den whose denominator is a power of two, so the float is exact
quality_fraction(extraction_quality) ==
    [num |-> Cardinality({k \in DOMAIN extraction_quality : extraction_quality[k]}),
     den |-> Cardinality(DOMAIN extraction_quality)]

map_to_descriptive_metadata(self, it, txt, seed) ==
    LET scored(metadata, extraction_quality) ==
            metadata @@ [extraction_quality |-> extraction_quality,
                         quality_score      |-> quality_fraction(extraction_quality)]
        measured(metadata) ==
            scored(metadata,
                   [has_color       |-> Len(metadata.ColoredDrawing) > 0,
                    has_decoration  |-> Len(metadata.Decorations) > 0,
                    has_shape       |-> Len(metadata.Shape) > 0,
                    has_function    |-> Len(metadata.Function) > 0,
                    has_material    |-> Len(metadata.Paste) > 0,
                    has_glaze       |-> Len(metadata.Glaze) > 0,
                    has_place       |-> Len(metadata.ProductionPlace) > 0,
                    has_inscription |-> Len(metadata.Inscriptions) > 0])
    IN  measured([Descriptions            |-> take(IF HasField(it, "dcDescription")
                                                   THEN flatten_value(it["dcDescription"])
                                                   ELSE <<>>, MaxDescriptions),
                  ColoredDrawing          |-> extract_colored_drawing(self, txt, seed),
                  Decorations             |-> extract_decorations(self, txt, seed),
                  Shape                   |-> extract_shape(self, txt, seed),
                  ShapeDescription        |-> <<>>,
                  Function                |-> extract_function(self, txt, seed),
                  FunctionCategory        |-> <<>>,
                  Paste                   |-> extract_material(self, txt, seed),
                  PasteMaterial           |-> extract_material(self, txt, seed),
                  Glaze                   |-> extract_glaze(self, txt, seed),
                  ProductionPlace         |-> extract_production_place(self, it, txt),
                  ProductionPlaceLocation |-> extract_production_place(self, it, txt),
                  Inscriptions            |-> extract_inscriptions(self, txt, seed)])

(***************************************************************************)
(* DataMapper.map_to_extended_metadata                                     *)
(***************************************************************************)
map_to_extended_metadata(it) ==
    [RelatedPeople      |-> IF HasField(it, "dcCreator") THEN flatten_value(it["dcCreator"]) ELSE <<>>,
     RelatedCollections |-> IF HasField(it, "europeanaCollectionName")
                            THEN flatten_value(it["europeanaCollectionName"]) ELSE <<>>,
     Digitalization     |-> [edmIsShownAt |-> get(it, "edmIsShownAt", Str("")),
                             edmIsShownBy |-> get(it, "edmIsShownBy", Str("")),
                             edmPreview   |-> get(it, "edmPreview", Str(""))],
     DocumentationsAPI  |-> get(it, "link", Str("")),
     OriginalData       |-> [guid                    |-> get(it, "guid", Str("")),
                             europeanaCollectionName |-> get(it, "europeanaCollectionName", Str("")),
                             provider                |-> get(it, "provider", Str("")),
                             type                    |-> get(it, "type", Str("")),
                             language                |-> get(it, "language", List(<<>>))]]

(***************************************************************************)
(* DataMapper.process_item                                                 *)
(***************************************************************************)
\* an empty dict
EmptyDict == Dict(<<>>)

\* a variant whose try block covers the descriptive bundle only
bundle_error_descriptive_only(it) ==
    IF production_place_raises(it) THEN "AttributeError" ELSE None

\* the exception raised while the three bundles are built, None without one
\* (its name stands for the message str(e))
bundle_error(it) ==
    IF production_place_raises(it) \/ period_info_raises(it) THEN "AttributeError" ELSE None

\* DataMapper.process_item; now is datetime.now().isoformat()
process_item(self, it, txt, seed, now) ==
    IF bundle_error(it) = None
    THEN [id                      |-> get(it, "id", Str("")),
          DescriptiveMetadata     |-> map_to_descriptive_metadata(self, it, txt, seed),
          Metadata_for_Management |-> map_to_management_metadata(self, it),
          ExtendedMetadata        |-> map_to_extended_metadata(it),
          ProcessingMetadata      |->
              [processed_date         |-> now,
               preprocessing_metadata |-> get(it, "preprocessing_metadata", EmptyDict)]]
    ELSE [id                      |-> get(it, "id", Str("")),
          DescriptiveMetadata     |-> <<>>,
          Metadata_for_Management |-> <<>>,
          ExtendedMetadata        |-> <<>>,
          ProcessingMetadata      |-> [processed_date |-> now, error |-> bundle_error(it)]]
(***************************************************************************)
(* Inputs                                                                  *)
(***************************************************************************)
MinYear == 600

MaxYear == 2030

Years == MinYear..MaxYear

\* a record without any field
EmptyItem == <<>>

\* every concatenation of at most n members of pool
Phrases(pool, n) ==
    UNION {{concat([i \in 1..m |-> pool[f[i]]]) : f \in [1..m -> 1..Len(pool)]} : m \in 0..n}

PlaceFrags ==
    <<"Bruxelles", "Vienna", " Museum Collection", " COLLECTION", "Art Gallery ", "Hallwyl ",
      "Herstellung: ", "Manufacture de ", "Kyoto", " Arita ", "DELFT", "Jingdezhen",
      "Stoke on Trent", "Porcelain workshop of the eastern provinces">>

MaxPlaceFrags == 2

\* the canonical names: the keys of the place-normalization table and of the
\* production-place keyword table
CanonicalPlaces(self) ==
    Range(Keys(self.place_normalization)) \cup Range(Keys(self.production_keywords))

PlaceInputs ==
    Phrases(PlaceFrags, MaxPlaceFrags) \cup CanonicalPlaces(DefaultKD) \cup {None}

\* the operation returns value
Return(value) ==
    /\ ret' = value
    /\ pc' = "done"
    /\ UNCHANGED <<kd, hashseed, op, year, place, item, text, exc, mutations, run, prev, frame>>

\* the operation raises exception e
Raise(e) ==
    /\ exc' = e
    /\ pc' = "done"
    /\ UNCHANGED <<kd, hashseed, op, year, place, item, text, ret, mutations, run, prev, frame>>

(***************************************************************************)
(* get_dynasty_from_year applied to one year                               *)
(***************************************************************************)
InitDynasty ==
    /\ kd = DefaultKD
    /\ hashseed = 0
    /\ pc = "call"
    /\ op = "get_dynasty_from_year"
    /\ year \in Years
    /\ place = None
    /\ item = EmptyItem
    /\ text = ""
    /\ ret = None
    /\ exc = None
    /\ mutations = <<>>
    /\ run = 1
    /\ prev = None
    /\ frame = None

Call_get_dynasty_from_year ==
    /\ pc = "call"
    /\ op = "get_dynasty_from_year"
    /\ Return(get_dynasty_from_year(year))

NextDynasty == Call_get_dynasty_from_year

SpecDynasty == InitDynasty /\ [][NextDynasty]_vars

(***************************************************************************)
(* normalize_place applied to one raw place string                         *)
(***************************************************************************)
InitPlace ==
    /\ kd = DefaultKD
    /\ hashseed = 0
    /\ pc = "call"
    /\ op = "normalize_place"
    /\ year = 0
    /\ place \in PlaceInputs
    /\ item = EmptyItem
    /\ text = ""
    /\ ret = None
    /\ exc = None
    /\ mutations = <<>>
    /\ run = 1
    /\ prev = None
    /\ frame = None

Call_normalize_place ==
    /\ pc = "call"
    /\ op = "normalize_place"
    /\ Return(normalize_place(kd, place))

NextPlace == Call_normalize_place

SpecPlace == InitPlace /\ [][NextPlace]_vars

(***************************************************************************)
(* Inputs of the extractors                                                *)
(***************************************************************************)
TextFrags ==
    <<"A blue and white Ming dynasty vase decorated with dragons, Jingdezhen, 17th century. ",
      "Yaozhou kiln celadon bowl with crackle glaze, China, signed Wang. ",
      "Longquan, Dehua, Yixing, Jun, Ding and Cizhou wares: jar, plate, cup, teapot, bottle and box; ",
      "Amsterdam, Rotterdam, Haarlem, Makkum, Antwerp or Tournai faience: cobalt underglaze, enamel, wucai and sancai. ",
      "Brussels pottery painted with peony, lotus, bamboo and pine, phoenix, crane, fish, scholar, lady, child, sage, mountain, river, pavilion, border, scroll, lattice, a poem in red. ",
      "Six character reign mark of Kangxi, seal mark and inscription reading fu; marked with a poem, ",
      "Painted with peony, lotus, bamboo, pine and plum in cobalt blue, decorated with Dragons; decorated with dragons. ">>

MaxTextFrags == 1

Texts == Phrases(TextFrags, MaxTextFrags)

Items ==
    { EmptyItem,
      [edmPlaceLabel |-> List(<<Def("Bruxelles"), Str("Kyoto"), Str("arita")>>)],
      [placeLabel |-> Str("Vienna Museum Collection")],
      [place |-> Def("Delft")],
      [origin |-> Str("Brussel"), production |-> Str("Belgique")],
      [provenance |-> List(<<List(<<Str("Paris"), NoneValue>>), Str("Arita")>>)],
      [production |-> Str("Stoke on Trent")],
      [edmPlaceLabel |-> Str("Japan"), origin |-> List(<<Str("England"), Def("potter's field")>>)],
      [place |-> Str("China"), production |-> Str("Yaozhou")],
      [placeLabel |-> Str("Ghent"), place |-> Str("Sevres"), origin |-> Str("Worcester"),
       provenance |-> Str("Holland"), production |-> List(<<Str("Canton"), Str("Meissen")>>)] }

\* the tables of a taxonomy that a caller has replaced
Workshop_shape_keywords ==
    << [key |-> "ware", kws |-> <<"wares", "faience", "pottery", "mark", "kiln", "vase", "painted">>],
       [key |-> "vase", kws |-> <<"vase", "bowl">>] >>

Workshop_glaze_keywords ==
    << [key |-> "painted", kws |-> <<"painted", "decorated", "signed", "marked", "kiln", "wares",
                                     "faience">>] >>

Workshop_production_keywords ==
    << [key |-> "kyoto", kws |-> <<"Kyoto", "reign mark">>],
       [key |-> "china", kws |-> <<"china", "ming", "yaozhou">>],
       [key |-> "jingdezhen", kws |-> <<"jingdezhen">>],
       [key |-> "low countries", kws |-> <<"amsterdam", "antwerp", "delft", "brussels">>] >>

WorkshopKD ==
    update_category(
        update_category(
            update_category(update_category(DefaultKD, "shape", Workshop_shape_keywords),
                            "glaze", Workshop_glaze_keywords),
            "production", Workshop_production_keywords),
        "decoration", <<>>)

Taxonomies == {DefaultKD, WorkshopKD}

MaxHashSeed == 1

HashSeeds == 0..MaxHashSeed

TextExtractors ==
    {"extract_colored_drawing", "extract_decorations", "extract_shape", "extract_function",
     "extract_material", "extract_glaze", "extract_inscriptions"}

(***************************************************************************)
(* One extractor applied to one record and its text                        *)
(***************************************************************************)
InitExtract ==
    /\ kd \in Taxonomies
    /\ hashseed \in HashSeeds
    /\ pc = "call"
    /\ op \in TextExtractors \cup {"extract_production_place"}
    /\ year = 0
    /\ place = None
    /\ item \in (IF op \in TextExtractors THEN {EmptyItem} ELSE Items)
    /\ text \in Texts
    /\ ret = None
    /\ exc = None
    /\ mutations = <<>>
    /\ run = 1
    /\ prev = None
    /\ frame = None

Calling(o) == pc = "call" /\ op = o

Call_extract_colored_drawing ==
    /\ Calling("extract_colored_drawing")
    /\ Return(extract_colored_drawing(kd, text, hashseed))

Call_extract_decorations ==
    /\ Calling("extract_decorations")
    /\ Return(extract_decorations(kd, text, hashseed))

Call_extract_shape ==
    /\ Calling("extract_shape")
    /\ Return(extract_shape(kd, text, hashseed))

Call_extract_function ==
    /\ Calling("extract_function")
    /\ Return(extract_function(kd, text, hashseed))

Call_extract_material ==
    /\ Calling("extract_material")
    /\ Return(extract_material(kd, text, hashseed))

Call_extract_glaze ==
    /\ Calling("extract_glaze")
    /\ Return(extract_glaze(kd, text, hashseed))

Call_extract_production_place ==
    /\ Calling("extract_production_place")
    /\ IF production_place_raises(item)
       THEN Raise("AttributeError")
       ELSE Return(extract_production_place(kd, item, text))

Call_extract_inscriptions ==
    /\ Calling("extract_inscriptions")
    /\ Return(extract_inscriptions(kd, text, hashseed))

NextExtract ==
    \/ Call_extract_colored_drawing
    \/ Call_extract_decorations
    \/ Call_extract_shape
    \/ Call_extract_function
    \/ Call_extract_material
    \/ Call_extract_glaze
    \/ Call_extract_production_place
    \/ Call_extract_inscriptions

SpecExtract == InitExtract /\ [][NextExtract]_vars

(***************************************************************************)
(* The same call evaluated again in a second run of the program            *)
(***************************************************************************)
\* The program ends and is started again on the same input: the new
\* interpreter process has its own hash seed.
Restart ==
    /\ pc = "done"
    /\ run = 1
    /\ run' = 2
    /\ hashseed' \in HashSeeds
    /\ prev' = ret
    /\ ret' = None
    /\ pc' = "call"
    /\ UNCHANGED <<kd, op, year, place, item, text, exc, mutations, frame>>

NextRerun == NextExtract \/ Restart

SpecRerun == InitExtract /\ [][NextRerun]_vars

(***************************************************************************)
(* extract_period_info and map_to_management_metadata applied to a record  *)
(***************************************************************************)
PeriodFrags ==
    <<"Ming dynasty, 17th century",
      "18th Century ",
      "17e siècle",
      "17ème siècle; 18. Jahrhundert; 19º século; 1600-luku ",
      "1200, 1300, 1400, 1500, 1600, 1650, 1700, 1800, 1900, 1930 and 2000; ",
      "Tang, Song, Yuan, Ming, Qing or Republic period ",
      "13th century or 14th century, ",
      "http://data.europeana.eu/timespan/18",
      "9th century, c.1279 or 1368/1644 ",
      "QING, Kangxi reign (1662-1722) ",
      "1st century; 0999, 2026, 2030, 3050 and 21st century ",
      "1750s, no17th century, 1750 1750 ",
      "Dutch Golden Age, 17th century Delft ",
      " ">>

MaxPeriodFrags == 1

PeriodTexts == Phrases(PeriodFrags, MaxPeriodFrags)

PeriodValues ==
    {Str(s) : s \in PeriodTexts} \cup {Def(s) : s \in PeriodTexts}
        \cup {List(<<Str(a), NoneValue, Def(b)>>) : a, b \in Range(PeriodFrags)}
        \cup {NoneValue, List(<<>>)}

\* the fields of a record that carry the period
PeriodParts ==
    {[Metadata_for_Management |-> Dict([Period |-> v])] : v \in PeriodValues}
        \cup {[edmTimespanLabel |-> v] : v \in PeriodValues}
        \cup {[Metadata_for_Management |-> Dict([Period |-> Str("")]), edmTimespanLabel |-> Str(s)]
                  : s \in PeriodTexts}
        \cup {[Metadata_for_Management |-> Dict([Identifier |-> Str("/9200/1")])], EmptyItem}

\* the other fields of a record that the management metadata reads
CatalogueParts ==
    { EmptyItem,
      [title |-> List(<<Str("Vase"), List(<<Str("Vaas"), NoneValue, Str("Vase")>>)>>),
       dcTitle |-> Str("Vase"), id |-> Str("/9200/1"), completeness |-> Num(7),
       dataProvider |-> Str("Rijksmuseum"), country |-> Str("netherlands"),
       description_quality |-> Dict([score |-> Num(3)])],
      [dcTitle |-> List(<<Def("Bowl"), Str("")>>), europeanaCompleteness |-> Num(10),
       completeness |-> Num(2), rights |-> Str("CC0"), timestamp_created |-> Str("2020-01-01"),
       timestamp_update |-> Str("2021-01-01"), description_quality |-> Str("good")] }

PeriodItems == {c @@ p : c \in CatalogueParts, p \in PeriodParts}

InitPeriod ==
    /\ kd = DefaultKD
    /\ hashseed = 0
    /\ pc = "call"
    /\ op \in {"extract_period_info", "map_to_management_metadata"}
    /\ year = 0
    /\ place = None
    /\ item \in PeriodItems
    /\ text = ""
    /\ ret = None
    /\ exc = None
    /\ mutations = <<>>
    /\ run = 1
    /\ prev = None
    /\ frame = None

Call_extract_period_info ==
    /\ Calling("extract_period_info")
    /\ IF period_info_raises(item)
       THEN Raise("AttributeError")
       ELSE Return(extract_period_info(kd, item))

Call_map_to_management_metadata ==
    /\ Calling("map_to_management_metadata")
    /\ IF period_info_raises(item)
       THEN Raise("AttributeError")
       ELSE Return(map_to_management_metadata(kd, item))

NextPeriod ==
    \/ Call_extract_period_info
    \/ Call_map_to_management_metadata

SpecPeriod == InitPeriod /\ [][NextPeriod]_vars


(***************************************************************************)
(* A record is turned into text and then processed                         *)
(* (MainProcessor: extract_text_from_item, then DataMapper.process_item)   *)
(***************************************************************************)
\* the record whose only content is one description
DescriptionOnlyItem ==
    [description |->
         List(<<Str("A blue and white Ming dynasty vase decorated with dragons, Jingdezhen, 17th century")>>)]

DescriptionParts ==
    { EmptyItem,
      DescriptionOnlyItem,
      [dcDescription |-> List(<<Str("Vase dans le style de la Chine avec des fleurs pour la cour"),
                                Str(""), NoneValue,
                                Str("Porcelain teapot for tea with celadon glaze, a dragon and a poem, signed Wang, China.")>>),
       dcTitle |-> Str("Teapot")],
      [description |-> Str("Rectangular chinaware dish, Denmark")],
      [dcDescription |-> Str("Stoneware bowl"),
       description |-> List(<<Str("Th#i#re en c#l#d#n"), Num(7), Str("Vase avec dragon pour la cour dans le jardin"),
                              Str("Bol und Teller")>>),
       title |-> List(<<Str("Bowl")>>)] }

PlaceParts ==
    { EmptyItem,
      [edmPlaceLabel |-> List(<<Def("Jingdezhen"), Str("China")>>)],
      [edmPlaceLabel |-> DefValue(Num(5))],
      [edmPlaceLabel |-> DefValue(NoneValue), place |-> Str("Delft")],
      [place |-> List(<<Str("Arita"), DefValue(Num(5))>>)],
      [place |-> List(<<DefValue(NoneValue), DefValue(Num(0)), Num(5)>>)],
      [origin |-> List(<<List(<<DefValue(List(<<Str("Delft")>>))>>)>>)],
      [production |-> Num(5), provenance |-> NoneValue] }

DatingParts ==
    { EmptyItem,
      [edmTimespanLabel |-> Str("Ming dynasty, 17th century")],
      [edmTimespanLabel |-> Num(1650)],
      [edmTimespanLabel |-> List(<<Str("Ming"), Num(1650), DefValue(NoneValue)>>)],
      [edmTimespanLabel |-> DefValue(List(<<Str("17th century")>>))],
      [Metadata_for_Management |-> Str("Ming")],
      [Metadata_for_Management |-> NoneValue, edmTimespanLabel |-> Str("Ming")],
      [Metadata_for_Management |-> Dict([Period |-> DefValue(Num(1650))])] }

IdParts == {EmptyItem, [id |-> Str("/9200/1"), dcCreator |-> List(<<Str("Wang")>>)]}

ProcessItems ==
    {(d @@ p) @@ (t @@ i) : d \in DescriptionParts, p \in PlaceParts, t \in DatingParts, i \in IdParts}

\* values of datetime.now().isoformat()
Dates == {"2024-05-01T10:00:00", "2024-05-01T10:00:01"}

ItemOperations ==
    {"process_item", "map_to_descriptive_metadata", "extract_production_place", "extract_period_info"}

InitProcess ==
    /\ kd = DefaultKD
    /\ hashseed = 0
    /\ pc = "text"
    /\ op \in ItemOperations
    /\ year = 0
    /\ place = None
    /\ item \in ProcessItems
    /\ text = ""
    /\ ret = None
    /\ exc = None
    /\ mutations = <<>>
    /\ run = 1
    /\ prev = None
    /\ frame = None

\* MainProcessor: raw_text = self.preprocessor.extract_text_from_item(item)
Call_extract_text_from_item ==
    /\ pc = "text"
    /\ text' = extract_text_from_item(item)
    /\ pc' = "call"
    /\ UNCHANGED <<kd, hashseed, op, year, place, item, ret, exc, mutations, run, prev, frame>>

Call_map_to_descriptive_metadata ==
    /\ Calling("map_to_descriptive_metadata")
    /\ IF production_place_raises(item)
       THEN Raise("AttributeError")
       ELSE Return(map_to_descriptive_metadata(kd, item, text, hashseed))

Call_process_item ==
    /\ Calling("process_item")
    /\ \E now \in Dates : Return(process_item(kd, item, text, hashseed, now))

NextProcess ==
    \/ Call_extract_text_from_item
    \/ Call_extract_production_place
    \/ Call_extract_period_info
    \/ Call_map_to_descriptive_metadata
    \/ Call_process_item

SpecProcess == InitProcess /\ [][NextProcess]_vars

(***************************************************************************)
(* The taxonomy is mutated and then read by an extraction call             *)
(***************************************************************************)
\* the categories of the data model
DataModelCategories ==
    {"color", "decoration_theme", "shape", "function", "material", "glaze",
     "production_place", "period"}

\* the attribute of KeywordDictionary that holds each category, under the
\* name of the data model and under the name get_all_keywords gives it
TableOf ==
    [color |-> "color_keywords", decoration_theme |-> "decoration_themes",
     decoration_themes |-> "decoration_themes", shape |-> "shape_keywords",
     function |-> "function_keywords", material |-> "material_keywords",
     glaze |-> "glaze_keywords", production_place |-> "production_keywords",
     production |-> "production_keywords", period |-> "period_keywords"]

\* the extractor that reads each attribute
ExtractorOf ==
    [color_keywords |-> "extract_colored_drawing", decoration_themes |-> "extract_decorations",
     shape_keywords |-> "extract_shape", function_keywords |-> "extract_function",
     material_keywords |-> "extract_material", glaze_keywords |-> "extract_glaze",
     production_keywords |-> "extract_production_place", period_keywords |-> "extract_period_info"]

MutationCategories == DOMAIN TableOf

NewKeyword == "amphora"

\* a key the category has by default, and a key it has not
MutationKeys(category) == {DefaultKD[TableOf[category]][1].key, NewKeyword}

KeywordLists(category) ==
    {<<NewKeyword>>, <<NewKeyword, "kraak", NewKeyword>>,
     <<DefaultKD[TableOf[category]][1].kws[1]>>}

NewDicts == {<<>>, <<[key |-> NewKeyword, kws |-> <<NewKeyword, "kraak">>]>>}

\* the text and the period value of the record the next extraction call reads
MutationText == "Kraak amphora"

MaxMutations == 1

InitMutate ==
    /\ kd = DefaultKD
    /\ hashseed \in HashSeeds
    /\ pc = "mutate"
    /\ op = None
    /\ year = 0
    /\ place = None
    /\ item = EmptyItem
    /\ text = ""
    /\ ret = None
    /\ exc = None
    /\ mutations = <<>>
    /\ run = 1
    /\ prev = None
    /\ frame = None

\* a mutation call leaves the taxonomy as new_kd
Mutate(call, new_kd) ==
    /\ pc = "mutate"
    /\ Len(mutations) < MaxMutations
    /\ kd' = new_kd
    /\ mutations' = Append(mutations, call)
    /\ UNCHANGED <<hashseed, pc, op, year, place, item, text, ret, exc, run, prev, frame>>

Call_add_keyword ==
    \E category \in MutationCategories :
        \E key \in MutationKeys(category), keywords \in KeywordLists(category) :
            Mutate([name |-> "add_keyword", category |-> category, key |-> key, keywords |-> keywords],
                   add_keyword(kd, category, key, keywords, hashseed))

Call_remove_keyword ==
    \E category \in MutationCategories :
        \E key \in MutationKeys(category), keywords \in KeywordLists(category) :
            Mutate([name |-> "remove_keyword", category |-> category, key |-> key, keywords |-> keywords],
                   remove_keyword(kd, category, key, keywords))

Call_update_category ==
    \E category \in MutationCategories, new_dict \in NewDicts :
        Mutate([name |-> "update_category", category |-> category, new_dict |-> new_dict],
               update_category(kd, category, new_dict))

\* the configuration sources: no file, a file that is not JSON, JSON values
\* that are no object, and JSON objects
ConfigSources ==
    {MissingFile, NotJson, List(<<>>), NoneValue, Dict(<<>>),
     Dict([color |-> <<[key |-> NewKeyword, kws |-> <<NewKeyword>>]>>])}

\* load_from_file returns None whether the load succeeded or failed
Call_load_from_file ==
    \E source \in ConfigSources :
        Mutate([name |-> "load_from_file", source |-> source, printed |-> load_message(source)],
               load_from_file(kd, source))

\* the extraction call that follows: the extractor of the category mutated
\* last (any extractor after load_from_file, which replaces every category) is
\* applied to a record that mentions the new keyword
NextCall ==
    /\ pc = "mutate"
    /\ mutations # <<>>
    /\ pc' = "call"
    /\ LET last == mutations[Len(mutations)]
       IN  \E o \in (IF last.name = "load_from_file"
                     THEN {ExtractorOf[a] : a \in DOMAIN ExtractorOf}
                     ELSE {ExtractorOf[TableOf[last.category]]}) :
               /\ op' = o
               /\ item' = IF o = "extract_period_info"
                          THEN [edmTimespanLabel |-> Str(MutationText)] ELSE EmptyItem
    /\ text' = MutationText
    /\ UNCHANGED <<kd, hashseed, year, place, ret, exc, mutations, run, prev, frame>>

NextMutate ==
    \/ Call_add_keyword
    \/ Call_remove_keyword
    \/ Call_update_category
    \/ Call_load_from_file
    \/ NextCall
    \/ Call_extract_colored_drawing
    \/ Call_extract_decorations
    \/ Call_extract_shape
    \/ Call_extract_function
    \/ Call_extract_material
    \/ Call_extract_glaze
    \/ Call_extract_production_place
    \/ Call_extract_period_info

SpecMutate == InitMutate /\ [][NextMutate]_vars
(***************************************************************************)
(* An extraction call, loop iteration by loop iteration, while             *)
(* update_category runs in another thread                                  *)
(***************************************************************************)
\* the attribute of the taxonomy whose items() the loop of an extractor
\* iterates
scanned_attribute ==
    [extract_colored_drawing |-> "color_keywords", extract_period_info |-> "period_keywords"]

\* a variant that looks the attribute up again at every iteration
iterated_dict_live(self, fr, attribute) == self[attribute]

\* the dict the for loop iterates: self.keyword_dict.<attribute> was evaluated
\* once, when the loop began, and fr.d is the dict object it gave
iterated_dict(self, fr, attribute) == fr.d

\* the local variables when a loop over the dict d begins
loop_begins(fr, d) == [fr EXCEPT !.d = d, !.i = 1, !.seen = <<>>, !.found = <<>>]

\* the local variables of a call that has not begun a loop
NewFrame ==
    [d |-> <<>>, i |-> 1, seen |-> <<>>, found |-> <<>>, scans |-> <<>>,
     s |-> 0, periods |-> <<>>, years |-> <<>>]

\* the "Nth century" labels of one candidate string
century_labels(period_str) ==
    LET cs == centuries_of(period_str)
    IN  [k \in 1..Len(cs) |-> to_str(cs[k]) \o "th century"]

\* steps 3 to 5 of extract_period_info
period_result(found, years) ==
    LET unique_periods == unique_periods_from(infer_dynasties(found, years), {})
        unique_years == unique_years_of(years)
    IN  [periods        |-> unique_periods,
         years          |-> unique_years,
         period_summary |-> period_summary_of(unique_periods, unique_years, years)]

\* the text a loop iteration searches
searched_text == IF op = "extract_period_info"
                 THEN lower(period_strings(item)[frame.s]) ELSE lower(text)

\* one of the keywords of the entry is found
keyword_found(entry, t) ==
    IF op = "extract_period_info"
    THEN \E j \in 1..Len(entry.kws) : Contains(entry.kws[j], t)
    ELSE hits_of(entry, t, boundaries(t)) # {}

SwapCategories == {"color", "period", "decoration_theme"}

SwapTexts == {"Kraak amphora in blue and white", "Celadon"}

SwapItems ==
    {[edmTimespanLabel |-> Str("Ming amphora")],
     [edmTimespanLabel |-> List(<<Str("Ming amphora"), Str("Kraak, 17th century")>>)]}

MaxSwaps == 1

InitSwap ==
    /\ kd = DefaultKD
    /\ hashseed \in HashSeeds
    /\ pc = "call"
    /\ op \in DOMAIN scanned_attribute
    /\ year = 0
    /\ place = None
    /\ item \in (IF op = "extract_period_info" THEN SwapItems ELSE {EmptyItem})
    /\ text \in (IF op = "extract_period_info" THEN {""} ELSE SwapTexts)
    /\ ret = None
    /\ exc = None
    /\ mutations = <<>>
    /\ run = 1
    /\ prev = None
    /\ frame = None

\* update_category in the other thread: hasattr, then one setattr
Swap_update_category ==
    \E category \in SwapCategories, new_dict \in NewDicts :
        /\ pc # "done"
        /\ Len(mutations) < MaxSwaps
        /\ kd' = update_category(kd, category, new_dict)
        /\ mutations' = Append(mutations,
               [name |-> "update_category", category |-> category, new_dict |-> new_dict,
                during |-> pc])
        /\ UNCHANGED <<hashseed, pc, op, year, place, item, text, ret, exc, run, prev, frame>>

\* extract_colored_drawing up to the head of its for loop
Enter_extract_colored_drawing ==
    /\ Calling("extract_colored_drawing")
    /\ text # ""
    /\ frame' = loop_begins(NewFrame, kd.color_keywords)
    /\ pc' = "loop"
    /\ UNCHANGED <<kd, hashseed, op, year, place, item, text, ret, exc, mutations, run, prev>>

\* extract_period_info up to the loop over the candidate strings
Enter_extract_period_info ==
    /\ Calling("extract_period_info")
    /\ frame' = NewFrame
    /\ pc' = "strings"
    /\ UNCHANGED <<kd, hashseed, op, year, place, item, text, ret, exc, mutations, run, prev>>

\* the next candidate string: its years and centuries, then the head of the
\* loop over period_keywords.items()
Next_period_string ==
    /\ pc = "strings"
    /\ frame.s < Len(period_strings(item))
    /\ LET period_str == period_strings(item)[frame.s + 1]
       IN  frame' = loop_begins([frame EXCEPT !.s = @ + 1,
                                              !.years = @ \o years_of(period_str),
                                              !.periods = @ \o century_labels(period_str)],
                                kd.period_keywords)
    /\ pc' = "loop"
    /\ UNCHANGED <<kd, hashseed, op, year, place, item, text, ret, exc, mutations, run, prev>>

\* one iteration of the loop over the items of the dict
Iterate ==
    /\ pc = "loop"
    /\ LET d == iterated_dict(kd, frame, scanned_attribute[op])
       IN  /\ frame.i <= Len(d)
           /\ frame' = [frame EXCEPT
                  !.i = @ + 1,
                  !.seen = Append(@, d[frame.i]),
                  !.found = IF keyword_found(d[frame.i], searched_text)
                            THEN Append(@, d[frame.i].key) ELSE @]
    /\ UNCHANGED <<kd, hashseed, pc, op, year, place, item, text, ret, exc, mutations, run, prev>>

\* the loop of extract_colored_drawing is exhausted: return list(set(colors_found))
Leave_extract_colored_drawing ==
    /\ pc = "loop"
    /\ op = "extract_colored_drawing"
    /\ frame.i > Len(iterated_dict(kd, frame, scanned_attribute[op]))
    /\ frame' = [frame EXCEPT !.scans = Append(@, frame.seen)]
    /\ ret' = list_of_set(Range(frame.found), hashseed)
    /\ pc' = "done"
    /\ UNCHANGED <<kd, hashseed, op, year, place, item, text, exc, mutations, run, prev>>

\* the loop over the dynasties is exhausted for one candidate string
Leave_dynasty_loop ==
    /\ pc = "loop"
    /\ op = "extract_period_info"
    /\ frame.i > Len(iterated_dict(kd, frame, scanned_attribute[op]))
    /\ frame' = [frame EXCEPT
           !.scans = Append(@, frame.seen),
           !.periods = @ \o [k \in 1..Len(frame.found) |-> capitalize(frame.found[k])]]
    /\ pc' = "strings"
    /\ UNCHANGED <<kd, hashseed, op, year, place, item, text, ret, exc, mutations, run, prev>>

\* no candidate string is left: steps 3 to 5 and return
Leave_extract_period_info ==
    /\ pc = "strings"
    /\ frame.s = Len(period_strings(item))
    /\ ret' = period_result(frame.periods, frame.years)
    /\ pc' = "done"
    /\ UNCHANGED <<kd, hashseed, op, year, place, item, text, exc, mutations, run, prev, frame>>

NextSwap ==
    \/ Swap_update_category
    \/ Enter_extract_colored_drawing
    \/ Enter_extract_period_info
    \/ Next_period_string
    \/ Iterate
    \/ Leave_extract_colored_drawing
    \/ Leave_dynasty_loop
    \/ Leave_extract_period_info

SpecSwap == InitSwap /\ [][NextSwap]_vars

(***************************************************************************)
(* PorcelainProcessor.process_dataset: the text phase and the mapping      *)
(* phase over a loaded dataset                                             *)
(***************************************************************************)
\* PorcelainProcessor._init_stats
_init_stats ==
    [total |-> 0, processed |-> 0, with_decorations |-> 0, with_shape |-> 0,
     with_function |-> 0, with_inscriptions |-> 0, with_color |-> 0, with_glaze |-> 0,
     with_place |-> 0, with_topics |-> 0, high_quality |-> 0, errors |-> 0]

\* a variant that leaves stats['processed'] as it is
_update_stats_uncounted(stats, result) == stats

\* PorcelainProcessor._update_stats (no LDA topics: desc_meta has no
\* 'lda_topics')
_update_stats(stats, result) ==
    LET desc_meta == result.DescriptiveMetadata
        count(n, present) == IF present THEN n + 1 ELSE n
    IN  [stats EXCEPT
            !.processed = @ + 1,
            !.with_decorations = count(@, desc_meta.Decorations # <<>>),
            !.with_shape = count(@, desc_meta.Shape # <<>>),
            !.with_function = count(@, desc_meta.Function # <<>>),
            !.with_inscriptions = count(@, desc_meta.Inscriptions # <<>>),
            !.with_color = count(@, desc_meta.ColoredDrawing # <<>>),
            !.with_glaze = count(@, desc_meta.Glaze # <<>>),
            !.with_place = count(@, desc_meta.ProductionPlace # <<>>),
            !.high_quality = count(@, 2 * desc_meta.quality_score.num > desc_meta.quality_score.den)]

\* not ('error' not in result.get('ProcessingMetadata', {}))
has_error(result) == "error" \in DOMAIN result.ProcessingMetadata

DatasetItems ==
    {[id |-> Str("/9200/1"), description |-> Str("Blue and white vase decorated with dragons, Jingdezhen.")],
     [id |-> Str("/9200/2"), edmPlaceLabel |-> DefValue(Num(5))],
     [id |-> Str("/9200/3"), title |-> Str("Celadon bowl")]}

MaxItems == 3

\* TextPreprocessor.extract_text_from_item on the records of the datasets
raw_text_of == [it \in DatasetItems |-> extract_text_from_item(it)]

\* DataMapper.process_item of the processor's mapper (the default dictionary;
\* no LDA topics) on a record, a raw text and a clock reading
mapper_process_item ==
    [it \in DatasetItems, raw_text \in {raw_text_of[d] : d \in DatasetItems}, now \in Dates |->
        process_item(DefaultKD, it, raw_text, 0, now)]

\* the loaded datasets: the lists of at most MaxItems records
Datasets == UNION {[1..n -> DatasetItems] : n \in 0..MaxItems}

InitDataset ==
    /\ kd = DefaultKD
    /\ hashseed = 0
    /\ pc = "texts"
    /\ op = "process_dataset"
    /\ year = 0
    /\ place = None
    /\ item = EmptyItem
    /\ text = ""
    /\ ret = None
    /\ exc = None
    /\ mutations = <<>>
    /\ run = 1
    /\ prev = None
    /\ frame \in {[data |-> data, all_texts |-> <<>>, i |-> 0, processed_data |-> <<>>,
                   stats |-> _init_stats, calls |-> <<>>] : data \in Datasets}

\* phase 1, one iteration: the raw text of the next record
Extract_raw_text ==
    /\ pc = "texts"
    /\ Len(frame.all_texts) < Len(frame.data)
    /\ frame' = [frame EXCEPT
           !.all_texts = Append(@, raw_text_of[frame.data[Len(frame.all_texts) + 1]])]
    /\ UNCHANGED <<kd, hashseed, pc, op, year, place, item, text, ret, exc, mutations, run, prev>>

\* phase 1 is over (no LDA model is trained); the mapping phase begins
Start_mapping ==
    /\ pc = "texts"
    /\ Len(frame.all_texts) = Len(frame.data)
    /\ pc' = "mapping"
    /\ UNCHANGED <<kd, hashseed, op, year, place, item, text, ret, exc, mutations, run, prev, frame>>

\* phase 3, one iteration: process_item on the next record, then the test
\* for the error marker
Map_item ==
    /\ pc = "mapping"
    /\ frame.i < Len(frame.data)
    /\ \E now \in Dates :
           LET raw_text == frame.all_texts[frame.i + 1]
               result == mapper_process_item[frame.data[frame.i + 1], raw_text, now]
           IN  frame' = IF has_error(result)
                        THEN [frame EXCEPT !.i = @ + 1,
                                           !.calls = Append(@, frame.data[frame.i + 1]),
                                           !.stats.errors = @ + 1]
                        ELSE [frame EXCEPT !.i = @ + 1,
                                           !.calls = Append(@, frame.data[frame.i + 1]),
                                           !.processed_data = Append(@, result),
                                           !.stats = _update_stats(@, result)]
    /\ UNCHANGED <<kd, hashseed, pc, op, year, place, item, text, ret, exc, mutations, run, prev>>

\* PorcelainProcessor._save_results, the write of stats['total'] (the files
\* are written)
_save_results(processed_data, stats) ==
    [stats EXCEPT !.total = Len(processed_data) + stats.errors]

\* the loop is over: the results are saved
Save_results ==
    /\ pc = "mapping"
    /\ frame.i = Len(frame.data)
    /\ pc' = "saved"
    /\ frame' = [frame EXCEPT !.stats = _save_results(frame.processed_data, frame.stats)]
    /\ UNCHANGED <<kd, hashseed, op, year, place, item, text, ret, exc, mutations, run, prev>>

\* PorcelainProcessor._print_statistics divides by stats['total']
Print_statistics_raises ==
    /\ pc = "saved"
    /\ frame.stats.total = 0
    /\ pc' = "raised"
    /\ exc' = "ZeroDivisionError"
    /\ UNCHANGED <<kd, hashseed, op, year, place, item, text, ret, mutations, run, prev, frame>>

\* the statistics are printed and stats is returned: the returned dictionary
\* is the object frame.stats itself
Return_stats ==
    /\ pc = "saved"
    /\ frame.stats.total # 0
    /\ pc' = "done"
    /\ UNCHANGED <<kd, hashseed, op, year, place, item, text, ret, exc, mutations, run, prev, frame>>

NextDataset ==
    \/ Extract_raw_text
    \/ Start_mapping
    \/ Map_item
    \/ Save_results
    \/ Print_statistics_raises
    \/ Return_stats

\* the loops are plain for loops: every step that can be taken is taken
\* (each step changes pc or frame)
SpecDataset == InitDataset /\ [][NextDataset]_vars /\ WF_<<pc, frame>>(NextDataset)

(***************************************************************************)
(* Properties of get_dynasty_from_year                                     *)
(***************************************************************************)
Returned(o) == pc = "done" /\ op = o

ContainsAnyCase(w, s) ==
    \E i \in 1..(Len(s) - Len(w) + 1) : lower(SubSeq(s, i, i + Len(w) - 1)) = w

HasMarker(s) == \E m \in Range(museum_keywords) : ContainsAnyCase(m, s)

\* s contains, in some letter case, a variant of the place-normalization table
\* or a keyword of the production-place table
HasKnownPlace(self, s) ==
    \E d \in {self.place_normalization, self.production_keywords} :
        \E i \in 1..Len(d) : \E j \in 1..Len(d[i].kws) : ContainsAnyCase(lower(d[i].kws[j]), s)

\* C8 (as stated): normalize_place("Bruxelles") returns "belgium".
C8_BruxellesIsBelgium ==
    (Returned("normalize_place") /\ place = "Bruxelles") => ret = "belgium"

\* C8 (amended): normalize_place("Bruxelles") returns "brussels", the name of
\* the table entry that lists the variant "bruxelles".
C8_BruxellesIsBrussels ==
    (Returned("normalize_place") /\ place = "Bruxelles") => ret = "brussels"

C8_Witness == Returned("normalize_place") /\ place = "Bruxelles" /\ ret # None

\* C9: an input that contains an institution marker in any letter case yields
\* None, also when it contains a known place variant.
C9_MarkerYieldsNone ==
    (Returned("normalize_place") /\ place # None /\ HasMarker(place)) => ret = None

C9_Witness ==
    /\ Returned("normalize_place")
    /\ place = "Vienna Museum Collection"
    /\ HasKnownPlace(kd, place)
    /\ ret = None

\* C10: a non-empty input of at most 50 characters without marker and without
\* table match is returned trimmed and lower-cased.
C10_FallThroughIsTrimmedLower ==
    (/\ Returned("normalize_place")
     /\ place # None
     /\ place # ""
     /\ Len(place) <= PlaceLengthCap
     /\ ~HasMarker(place)
     /\ ~HasKnownPlace(kd, place)) => ret = strip(lower(place))

(***************************************************************************)
(* Properties of the extractors                                            *)
(***************************************************************************)
\* C2: the lists returned by extract_decorations, extract_shape,
\* extract_glaze, extract_production_place and extract_inscriptions hold at
\* most 15, 5, 5, 10 and 5 elements.
C2_Caps ==
    /\ Returned("extract_decorations") => Len(ret) <= 15
    /\ Returned("extract_shape") => Len(ret) <= 5
    /\ Returned("extract_glaze") => Len(ret) <= 5
    /\ Returned("extract_production_place") => Len(ret) <= 10
    /\ Returned("extract_inscriptions") => Len(ret) <= 5

\* the unique decorations found outnumber the cap
C2_Witness ==
    /\ Returned("extract_decorations")
    /\ Len(all_decorations(kd, text, hashseed)) > 15
    /\ Len(ret) = 15

\* C4: an extractor evaluated again on the same input, in the same or in
\* another run of the program, returns the same list.
C4_SameResultInEveryRun ==
    (pc = "done" /\ run = 2) => ret = prev

(***************************************************************************)
(* Properties of extract_production_place                                  *)
(***************************************************************************)
\* the position of x in sequence s (0 when absent)
IndexOf(s, x) == IF x \in Range(s) THEN Min({i \in 1..Len(s) : s[i] = x}) ELSE 0

InPriority(p) == p \in Range(priority_order)

\* a comes before b in alphabetical order, whatever the letter case
alphabetical(a, b) == ~str_less(lower(b), lower(a))

\* C5: the returned places are ordered by the priority list, every place
\* outside the priority list comes after all priority places, and those
\* places are in alphabetical order; "jingdezhen" precedes "china".
C5_PriorityOrder ==
    Returned("extract_production_place") =>
        /\ \A i, j \in 1..Len(ret) :
               i < j =>
                   /\ InPriority(ret[j]) => InPriority(ret[i])
                   /\ InPriority(ret[j]) =>
                          IndexOf(priority_order, ret[i]) < IndexOf(priority_order, ret[j])
                   /\ (~InPriority(ret[i]) /\ ~InPriority(ret[j])) => alphabetical(ret[i], ret[j])
        /\ ({"jingdezhen", "china"} \subseteq Range(ret)) =>
               IndexOf(ret, "jingdezhen") < IndexOf(ret, "china")

kiln_names == {"jingdezhen", "longquan", "dehua", "yixing", "jun", "ding", "cizhou", "yaozhou"}

country_names == {"china", "netherlands", "belgium"}

BrusselsFound == "brussels" \in discovered_places(kd, item, text)

\* C7: "brussels" is never returned; when a Brussels variant was found,
\* "belgium" is in the place set that is ordered, and it is returned unless
\* ten places of higher priority fill the list.
C7_BrusselsFoldedIntoBelgium ==
    Returned("extract_production_place") =>
        /\ "brussels" \notin Range(ret)
        /\ BrusselsFound =>
               /\ "belgium" \in clean_places(discovered_places(kd, item, text))
               /\ \/ "belgium" \in Range(ret)
                  \/ /\ Len(ret) = MaxProductionPlaces
                     /\ \A i \in 1..Len(ret) :
                            /\ InPriority(ret[i])
                            /\ IndexOf(priority_order, ret[i]) < IndexOf(priority_order, "belgium")

C7_Witness ==
    /\ Returned("extract_production_place")
    /\ BrusselsFound
    /\ "belgium" \notin discovered_places(kd, item, text)
    /\ "belgium" \in Range(ret)

CappedSummaryOf(summary, periods, years) ==
    /\ Len(summary.periods) <= 5
    /\ Len(summary.years) <= 10
    /\ summary.periods = SubSeq(periods, 1, Len(summary.periods))
    /\ Len(periods) > 5 => Len(summary.periods) = 5
    /\ Range(summary.years) \subseteq Range(years)
    /\ Len(years) > 10 => Len(summary.years) = 10
    /\ \A y \in Range(years) \ Range(summary.years) : \A k \in Range(summary.years) : k < y

C11_Idempotent ==
    Returned("normalize_place") =>
        /\ normalize_place(kd, ret) = ret
        /\ place \in CanonicalPlaces(kd) => ret = place

C11_Witness ==
    /\ Returned("normalize_place")
    /\ place \notin CanonicalPlaces(kd)
    /\ ret \in CanonicalPlaces(kd)
    /\ ret # place
    /\ normalize_place(kd, ret) = ret

(***************************************************************************)
(* Century expressions in the period field                                 *)
(***************************************************************************)
\* C12: a century expression in the period field yields the mid-century
\* year (century-1)*100+50 and an "Nth century" label: the period value
\* "18th century" yields the year 1750 and the period entry "18th century",
\* and the period value "17e siècle" yields the year 1650.
C12_CenturyToMidYear ==
    Returned("extract_period_info") =>
        /\ (\E i \in 1..Len(period_strings(item)) : lower(period_strings(item)[i]) = "18th century")
               => (1750 \in Range(ret.years) /\ "18th century" \in Range(ret.periods))
        /\ "17e siècle" \in Range(period_strings(item)) => 1650 \in Range(ret.years)

(***************************************************************************)
(* Properties of process_item                                              *)
(***************************************************************************)
\* the position of x in sequence s, 0 when x is not in s
PositionOf(x, s) == IF x \in Range(s) THEN Min({i \in 1..Len(s) : s[i] = x}) ELSE 0

\* C13: for the record whose only content is the description "A blue and
\* white Ming dynasty vase decorated with dragons, Jingdezhen, 17th century",
\* with the text assembled from it, process_item yields ColoredDrawing with
\* "blue and white", Shape with "vase", Decorations with "animal:dragon" and
\* ProductionPlace with "jingdezhen" before any "china".
C13_DescriptiveBundleOfExample ==
    (Returned("process_item") /\ item = DescriptionOnlyItem) =>
        /\ "blue and white" \in Range(ret.DescriptiveMetadata.ColoredDrawing)
        /\ "vase" \in Range(ret.DescriptiveMetadata.Shape)
        /\ "animal:dragon" \in Range(ret.DescriptiveMetadata.Decorations)
        /\ "jingdezhen" \in Range(ret.DescriptiveMetadata.ProductionPlace)
        /\ "china" \in Range(ret.DescriptiveMetadata.ProductionPlace) =>
               PositionOf("jingdezhen", ret.DescriptiveMetadata.ProductionPlace)
                   < PositionOf("china", ret.DescriptiveMetadata.ProductionPlace)

\* C14 (as stated): for the same record, which carries its dating in the
\* description only, process_item yields Metadata_for_Management.Period with
\* "Ming" and Metadata_for_Management.Years with 1650.
C14_DatingFromDescription ==
    (Returned("process_item") /\ item = DescriptionOnlyItem) =>
        /\ "Ming" \in Range(ret.Metadata_for_Management.Period)
        /\ 1650 \in Range(ret.Metadata_for_Management.Years)

\* C14 (amended): the dating is read from the period fields of the record
\* only. A record without Metadata_for_Management and without
\* edmTimespanLabel gets an empty Period and an empty Years, whatever its
\* description says; the dating "Ming dynasty, 17th century" given as
\* edmTimespanLabel yields Period with "Ming" and Years with 1650.
C14_DatingFromPeriodFields ==
    (Returned("process_item") /\ bundle_error(item) = None) =>
        /\ (~HasField(item, "Metadata_for_Management") /\ ~HasField(item, "edmTimespanLabel")) =>
               /\ ret.Metadata_for_Management.Period = <<>>
               /\ ret.Metadata_for_Management.Years = <<>>
        /\ (/\ ~HasField(item, "Metadata_for_Management")
            /\ HasField(item, "edmTimespanLabel")
            /\ item["edmTimespanLabel"] = Str("Ming dynasty, 17th century")) =>
               /\ "Ming" \in Range(ret.Metadata_for_Management.Period)
               /\ 1650 \in Range(ret.Metadata_for_Management.Years)

C14_Witness ==
    /\ Returned("process_item")
    /\ item = DescriptionOnlyItem
    /\ Contains("Ming dynasty", text)
    /\ Contains("17th century", text)
    /\ ret.Metadata_for_Management.Period = <<>>
    /\ ret.Metadata_for_Management.Years = <<>>

\* the attribute list behind each indicator
IndicatorList ==
    [has_color |-> "ColoredDrawing", has_decoration |-> "Decorations", has_shape |-> "Shape",
     has_function |-> "Function", has_material |-> "Paste", has_glaze |-> "Glaze",
     has_place |-> "ProductionPlace", has_inscription |-> "Inscriptions"]

QualityConsistent(bundle) ==
    /\ DOMAIN bundle.extraction_quality = DOMAIN IndicatorList
    /\ \A k \in DOMAIN IndicatorList :
           bundle.extraction_quality[k] <=> (bundle[IndicatorList[k]] # <<>>)
    /\ bundle.quality_score.den = 8
    /\ bundle.quality_score.num =
           Cardinality({k \in DOMAIN IndicatorList : bundle[IndicatorList[k]] # <<>>})
    /\ 0 <= bundle.quality_score.num
    /\ bundle.quality_score.num <= bundle.quality_score.den

\* C15: in every descriptive bundle each of the eight indicators is true
\* exactly when the attribute list behind it is non-empty, and quality_score
\* is (number of true indicators)/8, a value in [0, 1].
C15_QualityScore ==
    /\ (Returned("map_to_descriptive_metadata") /\ exc = None) => QualityConsistent(ret)
    /\ (Returned("process_item") /\ bundle_error(item) = None) =>
           QualityConsistent(ret.DescriptiveMetadata)

C15_Witness ==
    /\ Returned("map_to_descriptive_metadata")
    /\ exc = None
    /\ ret.extraction_quality.has_color
    /\ ~ret.extraction_quality.has_function
    /\ ret.Function = <<>>
    /\ ret.quality_score = [num |-> 5, den |-> 8]

\* C16: extract_production_place and extract_period_info return normally on
\* every record, also when a place or period field is malformed.
C16_SubExtractorsNeverRaise ==
    (Returned("extract_production_place") \/ Returned("extract_period_info")) => exc = None

\* C17: process_item never raises for a dict record. When an exception occurs
\* while the bundles are built it returns the degraded result: the id of the
\* record, three empty bundles and an error string in ProcessingMetadata;
\* otherwise the full result with the id of the record and no error key.
C17_DegradedResult ==
    Returned("process_item") =>
        /\ exc = None
        /\ ret.id = get(item, "id", Str(""))
        /\ IF production_place_raises(item) \/ period_info_raises(item)
           THEN /\ DOMAIN ret.DescriptiveMetadata = {}
                /\ DOMAIN ret.Metadata_for_Management = {}
                /\ DOMAIN ret.ExtendedMetadata = {}
                /\ "error" \in DOMAIN ret.ProcessingMetadata
                /\ ret.ProcessingMetadata.error \notin {"", None}
           ELSE /\ "ColoredDrawing" \in DOMAIN ret.DescriptiveMetadata
                /\ "Period" \in DOMAIN ret.Metadata_for_Management
                /\ "RelatedPeople" \in DOMAIN ret.ExtendedMetadata
                /\ "error" \notin DOMAIN ret.ProcessingMetadata

C17_Witness ==
    /\ Returned("process_item")
    /\ period_info_raises(item)
    /\ ~production_place_raises(item)
    /\ ret.id = Str("/9200/1")
    /\ DOMAIN ret.Metadata_for_Management = {}
    /\ "error" \in DOMAIN ret.ProcessingMetadata

(***************************************************************************)
(* Claims about the mutation operations                                    *)
(***************************************************************************)
\* the step is a call of the mutation operation name
MutationStep(name) ==
    /\ Len(mutations') = Len(mutations) + 1
    /\ mutations'[Len(mutations')].name = name

NoDuplicates(s) == \A i, j \in 1..Len(s) : s[i] = s[j] => i = j

\* C18: after add_keyword(category, key, keywords) on a category of the
\* taxonomy, whether the key existed or is new, the list stored under the key
\* has no duplicate entries and holds every keyword stored before and every
\* keyword passed in.
C18_AddKeywordDeduplicates ==
    [][LET call == mutations'[Len(mutations')]
           attribute == category_attribute(call.category)
           before == IF has_key(kd[attribute], call.key)
                     THEN Range(keywords_of(kd[attribute], call.key)) ELSE {}
       IN  (MutationStep("add_keyword") /\ has_category(kd, call.category)) =>
               /\ has_key(kd'[attribute], call.key)
               /\ NoDuplicates(keywords_of(kd'[attribute], call.key))
               /\ before \cup Range(call.keywords)
                      \subseteq Range(keywords_of(kd'[attribute], call.key))]_vars

\* the result of the extraction call shows a hit of the taxonomy
ExtractionHit ==
    IF op = "extract_period_info" THEN ret.periods # <<>> ELSE ret # <<>>

\* C19: the mutation operations act on each of the eight categories of the
\* data model: after add_keyword(c, k, [w]) the keyword w is stored under key k
\* of the table of category c, after update_category(c, d) the table of
\* category c is d, and the extraction call that follows a mutation adding the
\* keyword "amphora" finds it in a text that mentions it.
C19_MutationsActOnEveryCategory ==
    /\ [][LET call == mutations'[Len(mutations')]
              table == kd'[TableOf[call.category]]
          IN  /\ (MutationStep("add_keyword") /\ call.category \in DataModelCategories
                      /\ Len(call.keywords) = 1) =>
                     /\ has_key(table, call.key)
                     /\ call.keywords[1] \in Range(keywords_of(table, call.key))
              /\ (MutationStep("update_category") /\ call.category \in DataModelCategories) =>
                     table = call.new_dict]_vars
    /\ [](LET call == mutations[1]
          IN  (/\ pc = "done"
               /\ Len(mutations) = 1
               /\ call.category \in DataModelCategories
               /\ \/ call.name = "update_category" /\ call.new_dict # <<>>
                  \/ /\ call.name = "add_keyword"
                     /\ call.key = NewKeyword
                     /\ call.keywords = <<NewKeyword>>) => ExtractionHit)

(***************************************************************************)
(* Claims about the way keywords are matched                               *)
(***************************************************************************)
\* some surface form of the entry key of dict d occurs in t as a whole word
WholeWordHit(d, key, t) ==
    \E i \in 1..Len(d) :
        d[i].key = key /\ hits_of(d[i], t, boundaries(t)) # {}

\* the surface form kw occurs in t as a whole word
WholeWord(kw, t) == word_search(kw, t, boundaries(t))

\* every entry of the descriptive bundle that names a keyword of the taxonomy
\* or an inscription keyword goes back to a whole-word occurrence in the text
WholeWordBundle(self, bundle, t) ==
    /\ \A c \in Range(bundle.ColoredDrawing) : WholeWordHit(self.color_keywords, c, t)
    /\ \A e \in Range(bundle.Decorations) :
           \A i \in 1..Len(self.decoration_themes) :
               \A kw \in Range(self.decoration_themes[i].kws) :
                   e = self.decoration_themes[i].key \o ":" \o kw => WholeWord(kw, t)
    /\ \A s \in Range(bundle.Shape) :
           \/ WholeWordHit(self.shape_keywords, s, t)
           \/ WholeWord(s, t)
    /\ \A f \in Range(bundle.Function) : WholeWordHit(self.function_keywords, f, t)
    /\ \A m \in Range(bundle.Paste) :
           \/ WholeWordHit(self.material_keywords, m, t)
           \/ \E w \in {"ceramic", "pottery", "clay", "porcelain", "china"} : WholeWord(w, t)
    /\ \A g \in Range(bundle.Glaze) :
           \/ \E i \in 1..Len(self.glaze_keywords) :
                  /\ g = replace_char(self.glaze_keywords[i].key, "_", " ")
                  /\ WholeWordHit(self.glaze_keywords, self.glaze_keywords[i].key, t)
           \/ WholeWord(g, t)
    /\ \A k \in Range(bundle.Inscriptions) \cap Range(inscription_keywords) : WholeWord(k, t)

\* every dynasty among the periods goes back to a whole-word occurrence of one
\* of its surface forms in a period string, or to a year of the record
WholeWordDynasties(self, periods, strings) ==
    \A i \in 1..Len(self.period_keywords) :
        LET dynasty == capitalize(self.period_keywords[i].key)
        IN  dynasty \in Range(periods) =>
                \E k \in 1..Len(strings) :
                    \/ hits_of(self.period_keywords[i], lower(strings[k]),
                               boundaries(lower(strings[k]))) # {}
                    \/ \E y \in Range(years_of(strings[k])) : get_dynasty_from_year(y) = dynasty

\* C20: outside place normalization and production-keyword matching, a keyword
\* is counted as a hit only where it occurs as a whole word: this holds for the
\* color, decoration, shape, function, material and glaze scans and for the
\* inscription keyword scan of the descriptive bundle, and for the dynasty scan
\* of extract_period_info.
C20_WholeWordMatching ==
    /\ Returned("map_to_descriptive_metadata") /\ exc = None =>
           WholeWordBundle(kd, ret, lower(text))
    /\ Returned("extract_period_info") /\ exc = None =>
           WholeWordDynasties(kd, ret.periods, period_strings(item))

(***************************************************************************)
(* First match in declaration order                                        *)
(***************************************************************************)
\* the entries of table d one of whose variants is a substring of s
EntriesWithin(d, s) ==
    {i \in 1..Len(d) : \E j \in 1..Len(d[i].kws) : Contains(lower(d[i].kws[j]), s)}

\* i is the first entry of d with a variant within s
FirstEntryWithin(d, s, i) ==
    i \in EntriesWithin(d, s) /\ \A k \in EntriesWithin(d, s) : i <= k

MarkerFree(p) ==
    /\ p \notin {None, ""}
    /\ \A k \in Range(museum_keywords) : ~Contains(k, lower(p))

\* C21: for an input without institution marker normalize_place returns the
\* name of the first entry, in declaration order, of the place-normalization
\* table with a variant inside the lower-cased input; the production-place
\* keyword table is consulted, first match again, only when the
\* place-normalization table has no match.
C21_FirstMatchInDeclarationOrder ==
    (Returned("normalize_place") /\ MarkerFree(place)) =>
        LET s == strip(lower(place))
            names == kd.place_normalization
            kilns == kd.production_keywords
        IN  /\ EntriesWithin(names, s) # {} =>
                   \E i \in 1..Len(names) : FirstEntryWithin(names, s, i) /\ ret = names[i].key
            /\ (EntriesWithin(names, s) = {} /\ EntriesWithin(kilns, s) # {}) =>
                   \E i \in 1..Len(kilns) : FirstEntryWithin(kilns, s, i) /\ ret = kilns[i].key

\* an input with variants of two place-normalization entries and of a
\* production-place entry resolves to the first place-normalization entry
C21_Witness ==
    /\ Returned("normalize_place")
    /\ MarkerFree(place)
    /\ Cardinality(EntriesWithin(kd.place_normalization, strip(lower(place)))) >= 2
    /\ \E i \in EntriesWithin(kd.production_keywords, strip(lower(place))) :
           kd.production_keywords[i].key # ret
    /\ ret = "vienna"

(***************************************************************************)
(* Loading the taxonomy from a configuration file                          *)
(***************************************************************************)
\* C22: when the configuration source of load_from_file is missing or
\* malformed the call raises: it does not return as a successful load does.
C22_LoadFailureSurfaced ==
    [][(MutationStep("load_from_file") /\ load_fails(mutations'[Len(mutations')].source)) =>
           exc' # None]_vars

(***************************************************************************)
(* The period list                                                         *)
(***************************************************************************)
\* the periods of a record in the order of discovery: per candidate string
\* the century labels and the dynasties, then the dynasties of the years
DiscoveredPeriods(self, it) ==
    LET strings == period_strings(it)
    IN  infer_dynasties(flatten([i \in 1..Len(strings) |-> periods_of(self, strings[i])]),
                        flatten([i \in 1..Len(strings) |-> years_of(strings[i])]))

\* the position of the first entry of s that equals x but for letter case
FirstSeen(x, s) == Min({i \in 1..Len(s) : lower(s[i]) = lower(x)})

\* C23: the period list returned by extract_period_info has no two entries
\* that are equal but for letter case (a dynasty found in two candidate
\* strings appears once), and its entries are in the order of first discovery.
C23_PeriodsDeduplicated ==
    (Returned("extract_period_info") /\ exc = None) =>
        LET found == DiscoveredPeriods(kd, item)
        IN  \A i, j \in 1..Len(ret.periods) :
                i < j => /\ lower(ret.periods[i]) # lower(ret.periods[j])
                         /\ FirstSeen(ret.periods[i], found) < FirstSeen(ret.periods[j], found)

\* C24: the century of the period summary is the century label of the
\* smallest year of the returned year list, whatever the order of discovery,
\* and None when there is no year.
C24_CenturyOfEarliestYear ==
    (Returned("extract_period_info") /\ exc = None) =>
        ret.period_summary.century =
            IF ret.years = <<>> THEN None
            ELSE get_century_from_year(Min(Range(ret.years)))

(***************************************************************************)
(* The decoration list                                                     *)
(***************************************************************************)
\* the entries of list s that start with prefix, by position
EntriesOf(s, prefix) == {k \in 1..Len(s) : startswith(s[k], prefix \o ":")}

\* the place of an entry in the order of construction: the number of its
\* theme, then the colors, then the phrase captures
BlockOf(self, entry) ==
    LET themes == self.decoration_themes
        own == {i \in 1..Len(themes) : startswith(entry, themes[i].key \o ":")}
    IN  IF own # {} THEN Min(own)
        ELSE IF startswith(entry, "color:") THEN Len(themes) + 1
        ELSE Len(themes) + 2

\* the place of a theme entry in the keyword list of its theme
KeywordPlace(self, entry) ==
    LET theme == self.decoration_themes[BlockOf(self, entry)]
    IN  Min({j \in 1..Len(theme.kws) : entry = theme.key \o ":" \o theme.kws[j]})

\* C25: in a list returned by extract_decorations every theme has at most 3
\* entries "theme:keyword", no two entries are equal but for letter case, and
\* the entries are in first-seen order: the themes in taxonomy order with
\* their keywords in list order, then the "color:" entries, then the phrase
\* captures.
C25_DecorationList ==
    Returned("extract_decorations") =>
        /\ \A i \in 1..Len(kd.decoration_themes) :
               Cardinality(EntriesOf(ret, kd.decoration_themes[i].key)) <= MaxKeywordsPerTheme
        /\ \A i, j \in 1..Len(ret) :
               i < j => /\ lower(ret[i]) # lower(ret[j])
                        /\ BlockOf(kd, ret[i]) <= BlockOf(kd, ret[j])
                        /\ (BlockOf(kd, ret[i]) = BlockOf(kd, ret[j])
                              /\ BlockOf(kd, ret[i]) <= Len(kd.decoration_themes))
                               => KeywordPlace(kd, ret[i]) < KeywordPlace(kd, ret[j])

\* a theme with more than 3 keyword hits has 3 entries, and a color entry and
\* a phrase capture follow
C25_Witness ==
    /\ Returned("extract_decorations")
    /\ \E i \in 1..Len(kd.decoration_themes) :
           /\ Cardinality(hits_of(kd.decoration_themes[i], lower(text), boundaries(lower(text))))
                  > MaxKeywordsPerTheme
           /\ Cardinality(EntriesOf(ret, kd.decoration_themes[i].key)) = MaxKeywordsPerTheme
    /\ EntriesOf(ret, "color") # {}
    /\ EntriesOf(ret, "painted") # {}

(***************************************************************************)
(* Frame of remove_keyword and atomicity of update_category                *)
(***************************************************************************)
\* list s without the elements of set S, the others in their order
Without(s, S) ==
    LET stays == {i \in 1..Len(s) : s[i] \notin S}
        nth(k) == CHOOSE i \in stays : Cardinality({j \in stays : j <= i}) = k
    IN  [k \in 1..Cardinality(stays) |-> s[nth(k)]]

\* C26: remove_keyword(category, key, keywords) leaves the whole taxonomy
\* unchanged when the category or the key does not exist or none of the
\* keywords is stored under the key; otherwise the list of the key becomes the
\* old list without the named keywords, the others in their order, and every
\* other key and every other category stays as it was.
C26_RemoveKeywordFrame ==
    [][MutationStep("remove_keyword") =>
           LET call == mutations'[Len(mutations')]
               attribute == category_attribute(call.category)
               exists == attribute \in DOMAIN kd /\ has_key(kd[attribute], call.key)
               stored == IF exists THEN keywords_of(kd[attribute], call.key) ELSE <<>>
           IN  IF Range(stored) \cap Range(call.keywords) = {}
               THEN kd' = kd
               ELSE /\ DOMAIN kd' = DOMAIN kd
                    /\ \A a \in DOMAIN kd \ {attribute} : kd'[a] = kd[a]
                    /\ Keys(kd'[attribute]) = Keys(kd[attribute])
                    /\ \A i \in 1..Len(kd[attribute]) :
                           kd'[attribute][i].kws =
                               IF kd[attribute][i].key = call.key
                               THEN Without(stored, Range(call.keywords))
                               ELSE kd[attribute][i].kws]_vars

\* a stored keyword has been removed from the first key of a category
C26_Witness ==
    /\ Len(mutations) = 1
    /\ mutations[1].name = "remove_keyword"
    /\ has_category(DefaultKD, mutations[1].category)
    /\ LET attribute == category_attribute(mutations[1].category)
           before == keywords_of(DefaultKD[attribute], mutations[1].key)
           after == keywords_of(kd[attribute], mutations[1].key)
       IN  /\ has_key(DefaultKD[attribute], mutations[1].key)
           /\ Len(before) > 1
           /\ Len(after) = Len(before) - 1
           /\ mutations[1].keywords[1] \notin Range(after)

\* the mappings the attribute held while the call ran
Versions(attribute) ==
    {DefaultKD[attribute]} \cup
        {mutations[k].new_dict :
            k \in {n \in 1..Len(mutations) : category_attribute(mutations[n].category) = attribute}}

\* C27 as stated: update_category on an unknown category changes nothing, and
\* an extraction call interleaved with update_category(c, d) uses one mapping
\* of c, the old one or d, for all it scans.
C27_CallSeesOneMapping ==
    /\ [][(Len(mutations') > Len(mutations)
              /\ ~has_category(kd, mutations'[Len(mutations')].category)) => kd' = kd]_vars
    /\ [](pc = "done" =>
              \E v \in Versions(scanned_attribute[op]) :
                  \A k \in 1..Len(frame.scans) : frame.scans[k] = v)

\* C27: update_category on an unknown category changes nothing, and every
\* loop over the items of a category that an extraction call runs iterates
\* one whole mapping, the old one or d.
C27_LoopSeesOneMapping ==
    /\ [][(Len(mutations') > Len(mutations)
              /\ ~has_category(kd, mutations'[Len(mutations')].category)) => kd' = kd]_vars
    /\ [](pc # "call" =>
              \A k \in 1..Len(frame.scans) : frame.scans[k] \in Versions(scanned_attribute[op]))

\* the color mapping was replaced while the loop of extract_colored_drawing
\* was under way, and the call returned the colors of the old mapping
C27_Witness ==
    /\ Returned("extract_colored_drawing")
    /\ Len(mutations) = 1
    /\ mutations[1].category = "color"
    /\ mutations[1].during = "loop"
    /\ kd.color_keywords = mutations[1].new_dict
    /\ frame.scans = <<DefaultKD.color_keywords>>
    /\ "blue and white" \in Range(ret)

(***************************************************************************)
(* Museum-host cities                                                      *)
(***************************************************************************)
\* C28: the list returned by extract_production_place never names a
\* museum-host city (vienna, stockholm, london, paris, new york), in whatever
\* letter case the city was written in a place field or in the text.
C28_NoMuseumCity ==
    (Returned("extract_production_place") /\ exc = None) =>
        \A k \in 1..Len(ret) : strip(lower(ret[k])) \notin museum_locations

(***************************************************************************)
(* The mapping phase of process_dataset                                    *)
(***************************************************************************)
\* the positions of the records of data whose bundles are built without error
GoodPositions(data) == {k \in 1..Len(data) : bundle_error(data[k]) = None}

\* the k-th smallest element of the set S of numbers
Nth(S, k) == CHOOSE x \in S : Cardinality({y \in S : y <= x}) = k

\* C29: in the mapping phase every record of the dataset is passed to
\* process_item once, in input order; a result with an error marker is left
\* out of the output and counted in stats['errors'], and the loop goes on, so
\* that the loop ends, and then processed + errors = n and the output holds
\* the results without error in input order.
\* the for loop of the mapping phase is over
LoopEnded == pc \in {"mapping", "saved", "raised", "done"} /\ frame.i = Len(frame.data)

C29_MappingLoop ==
    /\ [](pc = "mapping" => frame.calls = SubSeq(frame.data, 1, frame.i))
    /\ [](LoopEnded =>
              LET data == frame.data
                  good == GoodPositions(data)
              IN  /\ frame.calls = data
                  /\ frame.stats.processed + frame.stats.errors = Len(data)
                  /\ frame.stats.errors = Len(data) - Cardinality(good)
                  /\ Len(frame.processed_data) = Cardinality(good)
                  /\ \A k \in 1..Cardinality(good) :
                         /\ ~has_error(frame.processed_data[k])
                         /\ \E now \in Dates :
                                frame.processed_data[k] =
                                    process_item(kd, data[Nth(good, k)],
                                                 frame.all_texts[Nth(good, k)], hashseed, now))
    /\ <>LoopEnded

\* a dataset with an error record between two good ones has been mapped
C29_Witness ==
    /\ pc = "done"
    /\ op = "process_dataset"
    /\ Len(frame.data) = 3
    /\ GoodPositions(frame.data) = {1, 3}
    /\ frame.stats.errors = 1
    /\ frame.stats.processed = 2
    /\ frame.processed_data[2].id = frame.data[3].id

(***************************************************************************)
(* The years behind the dynasty mapping                                    *)
(***************************************************************************)
\* the periods that the scan of the candidate strings of it finds
ScannedPeriods(it) ==
    UNION {Range(periods_of(kd, period_strings(it)[i])) : i \in 1..Len(period_strings(it))}

\* C30 (as stated): in the result of extract_period_info every year key of the
\* summary's dynasty_mapping is in the returned year list, hence in
\* [1000, 2025], and every dynasty in the period list that the scan did not
\* find is the dynasty of a year of that list.
C30_DynastyYearsReturned ==
    (Returned("extract_period_info") /\ exc = None) =>
        /\ \A y \in DOMAIN ret.period_summary.dynasty_mapping :
               /\ y \in Range(ret.years)
               /\ y >= MinValidYear /\ y <= MaxValidYear
        /\ \A k \in 1..Len(ret.periods) :
               ret.periods[k] \notin ScannedPeriods(item) =>
                   \E y \in Range(ret.years) : get_dynasty_from_year(y) = ret.periods[k]
====
